---- MODULE Spec2Model ----
(***************************************************************************)
(* Model of the mementor ingestion and retrieval engine                    *)
(* (crates/mementor-lib: pipeline/ingest.rs, pipeline/chunker.rs,          *)
(* transcript/parser.rs, db/queries.rs; crates/mementor-cli: hooks).       *)
(*                                                                         *)
(* The database is the record db with one field per table.  A transcript   *)
(* is a sequence of lines; a line is given by its kind:                    *)
(*   "U"  user message                                                     *)
(*   "Um" user message whose text holds the token @/r/b                    *)
(*   "A"  assistant message                                                *)
(*   "At" assistant message with the tool call Read(/p/a)                  *)
(*   "N"  a line the parser skips (noise type, empty or malformed)         *)
(*   "P"  a pr-link entry                                                  *)
(* Text is kept as a sequence of blocks (the paragraphs that               *)
(* group_into_turns joins with blank lines); the tokenizer counts blocks.  *)
(* NULL stands for Option::None / SQL NULL of the usize columns.           *)
(***************************************************************************)
EXTENDS Integers, Sequences, FiniteSets, TLC

VARIABLES transcript, db, pending, done, atStart, base, ev, compactedAt, found

vars == <<transcript, db, pending, done, atStart, base, ev, compactedAt, found>>

MaxLines == 4

NULL == -1

Kinds == {"U", "Um", "A", "At", "N", "P"}

Sid == "s1"

ProjectDir == <<"/", "p">>

ProjectRoot == <<"/", "r">>

PathA == <<"/", "p", "/", "a">>

PathB == <<"/", "r", "/", "b">>

Max(a, b) == IF a >= b THEN a ELSE b

None == {}

Some(v) == {v}

Unwrap(o) == CHOOSE v \in o : TRUE

(***************************************************************************)
(* transcript/parser.rs                                                    *)
(***************************************************************************)
is_user(m) == m.kind \in {"U", "Um"}

is_assistant(m) == m.kind \in {"A", "At"}

IsMessageKind(k) == k \in {"U", "Um", "A", "At"}

\* Mutant: the lines read are numbered from the start line, not from the
\* beginning of the file.
LineIndices_Relative(t, start_line) ==
    [i \in 1..(Len(t) - start_line) |-> i - 1]

\* Lines line_idx >= start_line, as 0-based indices, in file order.
LineIndices(t, start_line) ==
    [i \in 1..(Len(t) - start_line) |-> start_line + i - 1]

ParsedMessage(t, i) ==
    [line_index |-> i,
     kind |-> t[i + 1],
     at |-> IF t[i + 1] = "Um" THEN <<PathB>> ELSE <<>>,
     tool_summary |-> IF t[i + 1] = "At"
                      THEN <<[tool |-> "Read", args |-> PathA]>> ELSE <<>>]

PrLinkEntry(t, i) ==
    [line_index |-> i, pr_number |-> 14, pr_url |-> "url14"]

\* Lines that go to the entries table: messages, and "R", an entry without
\* message text (a compact_boundary system entry).
IsRawKind(k) == IsMessageKind(k) \/ k = "R"

RawEntry(t, i) ==
    [line_index |-> i,
     entry_type |-> IF t[i + 1] \in {"U", "Um"} THEN "user"
                    ELSE IF t[i + 1] \in {"A", "At"} THEN "assistant"
                    ELSE "compact_boundary"]

\* Mutant: the lines are numbered by counting only those that parse.
parse_transcript_CountParsed(t, start_line) ==
    LET idx == LineIndices(t, start_line)
        kept == SelectSeq(idx, LAMBDA i : t[i + 1] # "N")
        msgAt == {j \in 1..Len(kept) : IsMessageKind(t[kept[j] + 1])}
        prAt == {j \in 1..Len(kept) : t[kept[j] + 1] = "P"}
        msgPos == SelectSeq([j \in 1..Len(kept) |-> j], LAMBDA j : j \in msgAt)
        prPos == SelectSeq([j \in 1..Len(kept) |-> j], LAMBDA j : j \in prAt)
        rawPos == SelectSeq([j \in 1..Len(kept) |-> j],
                            LAMBDA j : IsRawKind(t[kept[j] + 1]))
    IN [messages |-> [n \in 1..Len(msgPos) |->
                        [ParsedMessage(t, kept[msgPos[n]])
                           EXCEPT !.line_index = start_line + msgPos[n] - 1]],
        pr_links |-> [n \in 1..Len(prPos) |->
                        PrLinkEntry(t, start_line + prPos[n] - 1)],
        raw_entries |-> [n \in 1..Len(rawPos) |->
                           [RawEntry(t, kept[rawPos[n]])
                              EXCEPT !.line_index = start_line + rawPos[n] - 1]]]

parse_transcript(t, start_line) ==
    LET idx == LineIndices(t, start_line)
        msgLines == SelectSeq(idx, LAMBDA i : IsMessageKind(t[i + 1]))
        prLines == SelectSeq(idx, LAMBDA i : t[i + 1] = "P")
        rawLines == SelectSeq(idx, LAMBDA i : IsRawKind(t[i + 1]))
    IN [messages |-> [j \in 1..Len(msgLines) |-> ParsedMessage(t, msgLines[j])],
        pr_links |-> [j \in 1..Len(prLines) |-> PrLinkEntry(t, prLines[j])],
        raw_entries |-> [j \in 1..Len(rawLines) |-> RawEntry(t, rawLines[j])]]

(***************************************************************************)
(* pipeline/chunker.rs                                                     *)
(***************************************************************************)
Block(tag, m) == [tag |-> tag, line |-> m.line_index, at |-> m.at]

ToolsBlock(m) == [tag |-> "Tools", line |-> m.line_index, at |-> <<>>]

\* Mutant: a user message is paired with whatever message follows it.
RECURSIVE CollectPairs_AnyNext(_, _)
CollectPairs_AnyNext(messages, i) ==
    IF i > Len(messages) THEN <<>>
    ELSE IF is_user(messages[i]) /\ i + 1 <= Len(messages)
         THEN <<[user |-> messages[i], assistant |-> messages[i + 1]]>>
              \o CollectPairs_AnyNext(messages, i + 2)
         ELSE CollectPairs_AnyNext(messages, i + 1)

RECURSIVE CollectPairs(_, _)
CollectPairs(messages, i) ==
    IF i > Len(messages) THEN <<>>
    ELSE IF is_user(messages[i]) /\ i + 1 <= Len(messages)
            /\ is_assistant(messages[i + 1])
         THEN <<[user |-> messages[i], assistant |-> messages[i + 1]]>>
              \o CollectPairs(messages, i + 2)
         ELSE CollectPairs(messages, i + 1)

\* Mutant: the forward context is taken from the pair itself.
TurnOfPair_OwnUser(pairs, idx) ==
    LET user == pairs[idx].user
        assistant == pairs[idx].assistant
        text0 == <<Block("User", user), Block("Assistant", assistant)>>
        text1 == IF assistant.tool_summary # <<>>
                 THEN Append(text0, ToolsBlock(assistant)) ELSE text0
    IN [line_index |-> user.line_index,
        provisional |-> ~(idx + 1 <= Len(pairs)),
        text |-> IF idx + 1 <= Len(pairs)
                 THEN Append(text1, Block("User", user)) ELSE text1,
        tool_summary |-> assistant.tool_summary]

TurnOfPair(pairs, idx) ==
    LET user == pairs[idx].user
        assistant == pairs[idx].assistant
        tool_summary == assistant.tool_summary
        text0 == <<Block("User", user), Block("Assistant", assistant)>>
        text1 == IF tool_summary # <<>>
                 THEN Append(text0, ToolsBlock(assistant)) ELSE text0
        hasNext == idx + 1 <= Len(pairs)
    IN [line_index |-> user.line_index,
        provisional |-> ~hasNext,
        text |-> IF hasNext
                 THEN Append(text1, Block("User", pairs[idx + 1].user))
                 ELSE text1,
        tool_summary |-> tool_summary]

group_into_turns(messages) ==
    LET pairs == CollectPairs(messages, 1)
    IN [idx \in 1..Len(pairs) |-> TurnOfPair(pairs, idx)]

\* CHUNK_TARGET_TOKENS and CHUNK_OVERLAP_TOKENS, counted in blocks.
ChunkTargetBlocks == 2

ChunkOverlapBlocks == 1

\* MarkdownSplitter::chunks: consecutive blocks, at most the target per chunk.
RECURSIVE SplitBlocks(_)
SplitBlocks(text) ==
    IF text = <<>> THEN <<>>
    ELSE IF Len(text) <= ChunkTargetBlocks THEN <<text>>
    ELSE <<SubSeq(text, 1, ChunkTargetBlocks)>>
         \o SplitBlocks(SubSeq(text, ChunkTargetBlocks + 1, Len(text)))

extract_tail_tokens(text, n_tokens) ==
    SubSeq(text, Max(1, Len(text) - n_tokens + 1), Len(text))

\* Mutant: the overlap takes the place of the start of the chunk.
chunk_turn_OverlapReplaces(turn) ==
    LET raw_chunks == SplitBlocks(turn.text)
    IN [i \in 1..Len(raw_chunks) |->
          [line_index |-> turn.line_index,
           chunk_index |-> i - 1,
           text |-> IF i = 1 THEN raw_chunks[1]
                    ELSE extract_tail_tokens(raw_chunks[i - 1], ChunkOverlapBlocks)
                         \o Tail(raw_chunks[i])]]

chunk_turn(turn) ==
    LET raw_chunks == SplitBlocks(turn.text)
    IN [i \in 1..Len(raw_chunks) |->
          [line_index |-> turn.line_index,
           chunk_index |-> i - 1,
           text |-> IF i = 1 THEN raw_chunks[1]
                    ELSE extract_tail_tokens(raw_chunks[i - 1], ChunkOverlapBlocks)
                         \o raw_chunks[i]]]

(***************************************************************************)
(* pipeline/ingest.rs: path extraction                                     *)
(***************************************************************************)
StartsWith(s, p) == Len(p) <= Len(s) /\ SubSeq(s, 1, Len(p)) = p

StripSuffixSlash(p) ==
    IF p # <<>> /\ p[Len(p)] = "/" THEN SubSeq(p, 1, Len(p) - 1) ELSE p

StripPrefixSlash(p) == IF p # <<>> /\ p[1] = "/" THEN Tail(p) ELSE p

RelTo(path, prefix) ==
    StripPrefixSlash(SubSeq(path, Len(StripSuffixSlash(prefix)) + 1, Len(path)))

normalize_path(path, project_dir, project_root) ==
    IF ~StartsWith(path, <<"/">>) THEN Some(path)
    ELSE IF StartsWith(path, StripSuffixSlash(project_dir))
         THEN IF RelTo(path, project_dir) = <<>> THEN None
              ELSE Some(RelTo(path, project_dir))
    ELSE IF StartsWith(path, StripSuffixSlash(project_root))
         THEN IF RelTo(path, project_root) = <<>> THEN None
              ELSE Some(RelTo(path, project_root))
    ELSE None

\* (normalized path, tool name) pairs of the Read/Edit/Write summaries.
RECURSIVE extract_file_paths(_, _, _)
extract_file_paths(tool_summaries, project_dir, project_root) ==
    IF tool_summaries = <<>> THEN <<>>
    ELSE LET summary == Head(tool_summaries)
             normalized == normalize_path(summary.args, project_dir, project_root)
             rest == extract_file_paths(Tail(tool_summaries), project_dir, project_root)
         IN IF summary.tool \in {"Read", "Edit", "Write"} /\ normalized # None
            THEN <<[file_path |-> Unwrap(normalized), tool_name |-> summary.tool]>>
                 \o rest
            ELSE rest

\* The @-tokens of a text are the at fields of its blocks, in order.
RECURSIVE AtTokens(_)
AtTokens(text) ==
    IF text = <<>> THEN <<>> ELSE Head(text).at \o AtTokens(Tail(text))

\* The result is sorted and deduplicated: a set.
extract_at_mentions(turn_text, project_dir, project_root) ==
    LET tokens == AtTokens(turn_text)
    IN {Unwrap(normalize_path(tokens[i], project_dir, project_root)) :
          i \in {j \in 1..Len(tokens) :
                   tokens[j] # <<>>
                   /\ normalize_path(tokens[j], project_dir, project_root) # None}}

(***************************************************************************)
(* embedding/embedder.rs: embed_batch maps a text to its vector.  Vectors  *)
(* are points 0..EmbeddingLevels-1; equal texts get equal vectors.         *)
(***************************************************************************)
EmbeddingLevels == 4

RECURSIVE LineSum(_)
LineSum(text) ==
    IF text = <<>> THEN 0 ELSE Head(text).line + 1 + LineSum(Tail(text))

embed(text) == (LineSum(text) + Len(text)) % EmbeddingLevels

(***************************************************************************)
(* db/queries.rs                                                           *)
(***************************************************************************)
EmptyDb == [sessions |-> {}, memories |-> {}, file_mentions |-> {}, pr_links |-> {}]

get_session(d, session_id) == {s \in d.sessions : s.session_id = session_id}

\* INSERT ... ON CONFLICT(session_id) DO UPDATE, with the COALESCE on
\* last_compact_line_index.
upsert_session(d, session) ==
    LET existing == get_session(d, session.session_id)
    IN IF existing = {} THEN [d EXCEPT !.sessions = @ \cup {session}]
       ELSE [d EXCEPT !.sessions = (@ \ existing) \cup
               {[session EXCEPT !.last_compact_line_index =
                   IF session.last_compact_line_index # NULL
                   THEN session.last_compact_line_index
                   ELSE Unwrap(existing).last_compact_line_index]}]

\* Mutant: INSERT OR IGNORE, a stored chunk is never replaced.
insert_memory_OrIgnore(d, row) ==
    IF \E m \in d.memories :
         m.session_id = row.session_id /\ m.line_index = row.line_index
         /\ m.chunk_index = row.chunk_index
    THEN d
    ELSE [d EXCEPT !.memories = @ \cup {row}]

\* INSERT OR REPLACE under UNIQUE(session_id, line_index, chunk_index).
insert_memory(d, row) ==
    [d EXCEPT !.memories =
       {m \in @ : ~(m.session_id = row.session_id /\ m.line_index = row.line_index
                     /\ m.chunk_index = row.chunk_index)} \cup {row}]

\* Mutant: the DELETE lacks the line_index condition.
delete_memories_at_AllLines(d, key) ==
    [d EXCEPT !.memories = {m \in @ : m.session_id # key.session_id}]

delete_memories_at(d, key) ==
    [d EXCEPT !.memories =
       {m \in @ : ~(m.session_id = key.session_id /\ m.line_index = key.line_index)}]

\* INSERT OR IGNORE under UNIQUE(session_id, line_index, file_path, tool_name).
insert_file_mention(d, row) == [d EXCEPT !.file_mentions = @ \cup {row}]

delete_file_mentions_at(d, key) ==
    [d EXCEPT !.file_mentions =
       {f \in @ : ~(f.session_id = key.session_id /\ f.line_index = key.line_index)}]

\* Mutant: INSERT OR REPLACE, the later row takes the place of the stored one.
insert_pr_link_OrReplace(d, row) ==
    [d EXCEPT !.pr_links =
       {p \in @ : ~(p.session_id = row.session_id /\ p.pr_number = row.pr_number)}
       \cup {row}]

\* INSERT OR IGNORE under UNIQUE(session_id, pr_number).
insert_pr_link(d, row) ==
    IF \E p \in d.pr_links :
         p.session_id = row.session_id /\ p.pr_number = row.pr_number
    THEN d
    ELSE [d EXCEPT !.pr_links = @ \cup {row}]

\* Mutant: the boundary is set one past last_line_index.
update_compact_line_OnePast(d, session_id) ==
    [d EXCEPT !.sessions =
       {IF s.session_id = session_id
        THEN [s EXCEPT !.last_compact_line_index = s.last_line_index + 1]
        ELSE s : s \in @}]

update_compact_line(d, session_id) ==
    [d EXCEPT !.sessions =
       {IF s.session_id = session_id
        THEN [s EXCEPT !.last_compact_line_index = s.last_line_index]
        ELSE s : s \in @}]

(***************************************************************************)
(* db/queries.rs and pipeline/ingest.rs: search.  Distances are in         *)
(* hundredths.  Where SQL or the HashMap leaves the order of equal keys    *)
(* open, the operators yield the set of all results the query may give.    *)
(***************************************************************************)
DistanceStep == 20

MAX_COSINE_DISTANCE == 45

FILE_MATCH_DISTANCE == 35

OVER_FETCH_MULTIPLIER == 4

Min(a, b) == IF a <= b THEN a ELSE b

Distance(q, e) == (IF q >= e THEN q - e ELSE e - q) * DistanceStep

\* The k elements of S that rank lowest; ties may go either way.
LowestK(S, k, rank) ==
    {T \in SUBSET S :
       /\ Cardinality(T) = Min(k, Cardinality(S))
       /\ \A x \in T : \A y \in S \ T : rank[x] <= rank[y]}

\* Mutant: the boundary test is dropped from the WHERE clause.
InContextFilter_NoBoundaryTest(row_session, row_line, exclude_session_id, compact_boundary) ==
    \/ exclude_session_id = None
    \/ row_session \notin exclude_session_id
    \/ compact_boundary # NULL

\* WHERE ?3 IS NULL OR session_id != ?3 OR (?4 IS NOT NULL AND line_index <= ?4)
InContextFilter(row_session, row_line, exclude_session_id, compact_boundary) ==
    \/ exclude_session_id = None
    \/ row_session \notin exclude_session_id
    \/ (compact_boundary # NULL /\ row_line <= compact_boundary)

\* vector_full_scan yields the k nearest rows of the table; the WHERE clause
\* is applied to those.
search_memories(d, query_embedding, k, exclude_session_id, compact_boundary) ==
    {{m \in top : InContextFilter(m.session_id, m.line_index,
                                  exclude_session_id, compact_boundary)} :
       top \in LowestK(d.memories, k,
                       [m \in d.memories |-> Distance(query_embedding, m.embedding)])}

TurnKey(session_id, line_index) ==
    [session_id |-> session_id, line_index |-> line_index]

MatchCount(d, key, file_paths) ==
    Cardinality({f.file_path :
                   f \in {g \in d.file_mentions :
                            /\ g.session_id = key.session_id
                            /\ g.line_index = key.line_index
                            /\ g.file_path \in file_paths}})

\* Mutant: the in-context filter is applied to the k groups the limit kept.
search_by_file_path_FilterAfterLimit(d, file_paths, exclude_session_id, compact_boundary, k) ==
    IF file_paths = {} THEN {{}}
    ELSE LET groups ==
                 {TurnKey(f.session_id, f.line_index) :
                    f \in {g \in d.file_mentions : g.file_path \in file_paths}}
         IN {{key \in T : InContextFilter(key.session_id, key.line_index,
                                          exclude_session_id, compact_boundary)} :
               T \in LowestK(groups, k,
                             [key \in groups |-> 0 - MatchCount(d, key, file_paths)])}

\* GROUP BY session_id, line_index ORDER BY match_count DESC LIMIT k
search_by_file_path(d, file_paths, exclude_session_id, compact_boundary, k) ==
    IF file_paths = {} THEN {{}}
    ELSE LET groups ==
                 {TurnKey(f.session_id, f.line_index) :
                    f \in {g \in d.file_mentions :
                             /\ g.file_path \in file_paths
                             /\ InContextFilter(g.session_id, g.line_index,
                                                exclude_session_id, compact_boundary)}}
         IN LowestK(groups, k,
                    [key \in groups |-> 0 - MatchCount(d, key, file_paths)])

compact_boundary_for(d, session_id) ==
    IF session_id = None \/ get_session(d, Unwrap(session_id)) = None THEN NULL
    ELSE Unwrap(get_session(d, Unwrap(session_id))).last_compact_line_index

\* All orders of S with rank ascending: rows of equal rank come in any order.
RECURSIVE SortedBy(_, _)
SortedBy(S, rank) ==
    IF S = {} THEN {<<>>}
    ELSE UNION {{<<x>> \o t : t \in SortedBy(S \ {x}, rank)} :
                  x \in {y \in S : \A z \in S : rank[y] <= rank[z]}}

\* Mutant: a file match overwrites the distance the turn already has.
RECURSIVE merge_file_results_Overwrite(_, _)
merge_file_results_Overwrite(merged, file_results) ==
    IF file_results = <<>> THEN merged
    ELSE LET key == Head(file_results)
         IN merge_file_results_Overwrite(
                [x \in DOMAIN merged \cup {key} |->
                   IF x = key THEN FILE_MATCH_DISTANCE ELSE merged[x]],
                Tail(file_results))

\* Phase 5, the rows that pass the threshold.
after_threshold(q, candidates) ==
    SelectSeq(candidates, LAMBDA r : Distance(q, r.embedding) <= MAX_COSINE_DISTANCE)

\* Phase 6, first loop: entry(key).and_modify(keep the lower).or_insert(distance).
RECURSIVE merge_vector_results(_, _, _)
merge_vector_results(merged, q, results) ==
    IF results = <<>> THEN merged
    ELSE LET r == Head(results)
             key == TurnKey(r.session_id, r.line_index)
             distance == Distance(q, r.embedding)
         IN merge_vector_results(
                [x \in DOMAIN merged \cup {key} |->
                   IF x # key THEN merged[x]
                   ELSE IF key \in DOMAIN merged /\ ~(distance < merged[key])
                        THEN merged[key] ELSE distance],
                q, Tail(results))

\* Phase 6, second loop: entry(key).and_modify(lower to FILE_MATCH_DISTANCE)
\* .or_insert(FILE_MATCH_DISTANCE).
RECURSIVE merge_file_results(_, _)
merge_file_results(merged, file_results) ==
    IF file_results = <<>> THEN merged
    ELSE LET key == Head(file_results)
         IN merge_file_results(
                [x \in DOMAIN merged \cup {key} |->
                   IF x # key THEN merged[x]
                   ELSE IF key \in DOMAIN merged /\ ~(FILE_MATCH_DISTANCE < merged[key])
                        THEN merged[key] ELSE FILE_MATCH_DISTANCE],
                Tail(file_results))

EmptyMap == [x \in {} |-> 0]

\* Phases 5 and 6 on the rows in the order the two queries returned them.
merge_results(q, candidates, file_results) ==
    merge_file_results(
        merge_vector_results(EmptyMap, q, after_threshold(q, candidates)),
        file_results)

\* get_turns_chunks / the loop of phase 8: turns without text are left out.
HasText(d, key) ==
    \E m \in d.memories :
      m.session_id = key.session_id /\ m.line_index = key.line_index
      /\ m.content # <<>>

\* Mutant: the merged map is listed in the HashMap's order, unsorted and
\* untruncated.
rank_results_Unsorted(d, merged, k) ==
    {[i \in 1..Len(listed) |->
        [session_id |-> listed[i].session_id, line_index |-> listed[i].line_index,
         distance |-> merged[listed[i]]]] :
       listed \in {SelectSeq(sorted, LAMBDA key : HasText(d, key)) :
                     sorted \in SortedBy(DOMAIN merged, [x \in DOMAIN merged |-> 0])}}

\* Phases 7 and 8: sort by distance (the HashMap's order decides ties),
\* truncate to k, then list the turns that have text.
rank_results(d, merged, k) ==
    {[i \in 1..Len(listed) |->
        [session_id |-> listed[i].session_id, line_index |-> listed[i].line_index,
         distance |-> merged[listed[i]]]] :
       listed \in {SelectSeq(SubSeq(sorted, 1, Min(k, Len(sorted))),
                             LAMBDA key : HasText(d, key)) :
                     sorted \in SortedBy(DOMAIN merged, merged)}}

\* The rows of phase 3 and of phase 4 in the order of their ORDER BY.  The
\* merge keeps the lower distance per key whatever the order of the rows, so
\* rows of equal rank are taken in one order.
InOrder(S, rank) == CHOOSE seq \in SortedBy(S, rank) : TRUE

vector_candidates(d, q, k_internal, session_id) ==
    {InOrder(rows, [m \in rows |-> Distance(q, m.embedding)]) :
       rows \in search_memories(d, q, k_internal, session_id,
                                compact_boundary_for(d, session_id))}

file_candidates(d, file_hints, k_internal, session_id) ==
    {InOrder(keys, [key \in keys |-> 0 - MatchCount(d, key, file_hints)]) :
       keys \in search_by_file_path(d, file_hints, session_id,
                                    compact_boundary_for(d, session_id),
                                    k_internal)}

\* The listings search_context may print: memories in order, each with its
\* merged distance.
search_context_listing(d, q, file_hints, k, session_id) ==
    UNION {rank_results(d, merge_results(q, candidates, file_results), k) :
             candidates \in vector_candidates(d, q, k * OVER_FETCH_MULTIPLIER, session_id),
             file_results \in file_candidates(d, file_hints,
                                              k * OVER_FETCH_MULTIPLIER, session_id)}

Range(seq) == {seq[i] : i \in 1..Len(seq)}

\* The listed memories, each with its merged distance.
search_context(d, q, file_hints, k, session_id) ==
    {Range(listing) : listing \in search_context_listing(d, q, file_hints, k, session_id)}

(***************************************************************************)
(* pipeline/ingest.rs: run_ingest.  The control flow depends only on the   *)
(* session row read at the start and on the parse, so one invocation is    *)
(* the sequence of its embedder calls and database statements, each        *)
(* statement committed on its own (no transaction is opened).              *)
(***************************************************************************)
Op(op, arg) == [op |-> op, arg |-> arg]

RECURSIVE SetToSeq(_)
SetToSeq(S) ==
    IF S = {} THEN <<>>
    ELSE LET x == CHOOSE y \in S : TRUE IN <<x>> \o SetToSeq(S \ {x})

MemoryRow(session_id, chunk) ==
    [session_id |-> session_id,
     line_index |-> chunk.line_index,
     chunk_index |-> chunk.chunk_index,
     role |-> "turn",
     content |-> chunk.text,
     embedding |-> embed(chunk.text)]

FileMentionRow(session_id, line_index, file_path, tool_name) ==
    [session_id |-> session_id, line_index |-> line_index,
     file_path |-> file_path, tool_name |-> tool_name]

\* One iteration of the loop over turns: chunk -> embed -> store.
TurnOps(session_id, turn) ==
    LET chunks == chunk_turn(turn)
        file_paths == extract_file_paths(turn.tool_summary, ProjectDir, ProjectRoot)
        at_mentions == SetToSeq(extract_at_mentions(turn.text, ProjectDir, ProjectRoot))
    IN IF chunks = <<>> THEN <<>>
       ELSE <<Op("embed_batch", [line_index |-> turn.line_index])>>
            \o [i \in 1..Len(chunks) |->
                  Op("insert_memory", MemoryRow(session_id, chunks[i]))]
            \o [i \in 1..Len(file_paths) |->
                  Op("insert_file_mention",
                     FileMentionRow(session_id, turn.line_index,
                                    file_paths[i].file_path, file_paths[i].tool_name))]
            \o [i \in 1..Len(at_mentions) |->
                  Op("insert_file_mention",
                     FileMentionRow(session_id, turn.line_index,
                                    at_mentions[i], "mention"))]

RECURSIVE AllTurnOps(_, _)
AllTurnOps(session_id, turns) ==
    IF turns = <<>> THEN <<>>
    ELSE TurnOps(session_id, Head(turns)) \o AllTurnOps(session_id, Tail(turns))

MaxMessageLine(messages, read_from) ==
    IF messages = <<>> THEN read_from
    ELSE CHOOSE l \in {messages[i].line_index : i \in 1..Len(messages)} :
           \A i \in 1..Len(messages) : messages[i].line_index <= l

\* Mutant: the number of messages parsed in this invocation, not a line index.
NewLastLineIndex_Count(turns, messages, read_from) == Len(messages)

\* Mutant: last_line_index stops at the start line of the last turn.
NewLastLineIndex_TurnStart(turns, messages, read_from) ==
    IF turns = <<>> THEN MaxMessageLine(messages, read_from) + 1
    ELSE turns[Len(turns)].line_index

\* last_line_index after the loop, then covered up to the last parsed message.
NewLastLineIndex(turns, messages, read_from) ==
    Max(IF turns = <<>> THEN read_from ELSE turns[Len(turns)].line_index + 2,
        MaxMessageLine(messages, read_from) + 1)

\* Mutant: records the first turn of the invocation.
NewProvisionalStart_First(turns) ==
    IF turns = <<>> THEN NULL ELSE turns[1].line_index

\* Mutant: no provisional turn is recorded.
NewProvisionalStart_Null(turns) == NULL

NewProvisionalStart(turns) ==
    LET prov == {i \in 1..Len(turns) : turns[i].provisional}
    IN IF prov = {} THEN NULL
       ELSE turns[CHOOSE i \in prov : \A j \in prov : j <= i].line_index

SessionRow(session_id, last_line_index, provisional_turn_start, last_compact_line_index) ==
    [session_id |-> session_id,
     last_line_index |-> last_line_index,
     provisional_turn_start |-> provisional_turn_start,
     last_compact_line_index |-> last_compact_line_index]

\* Mutant: the session record is ensured before the parse result is tested.
run_ingest_EnsureSessionFirst(d, t, session_id) ==
    IF get_session(d, session_id) = None
    THEN <<Op("upsert_session", SessionRow(session_id, 0, NULL, NULL))>>
    ELSE <<>>

run_ingest(d, t, session_id) ==
    LET session == get_session(d, session_id)
        start_line == IF session = None THEN 0 ELSE Unwrap(session).last_line_index
        provisional_start ==
            IF session = None THEN NULL ELSE Unwrap(session).provisional_turn_start
        read_from == IF provisional_start # NULL THEN provisional_start ELSE start_line
        parsed == parse_transcript(t, read_from)
        messages == parsed.messages
        pr_links == parsed.pr_links
        turns == group_into_turns(messages)
        placeholder ==
            IF session = None
            THEN <<Op("upsert_session", SessionRow(session_id, read_from, NULL, NULL))>>
            ELSE <<>>
        prOps == [i \in 1..Len(pr_links) |->
                    Op("insert_pr_link",
                       [session_id |-> session_id,
                        pr_number |-> pr_links[i].pr_number,
                        pr_url |-> pr_links[i].pr_url])]
        deleteOps ==
            IF provisional_start # NULL
            THEN <<Op("delete_memories_at",
                      [session_id |-> session_id, line_index |-> provisional_start]),
                   Op("delete_file_mentions_at",
                      [session_id |-> session_id, line_index |-> provisional_start])>>
            ELSE <<>>
        final ==
            <<Op("upsert_session",
                 SessionRow(session_id,
                            NewLastLineIndex(turns, messages, read_from),
                            NewProvisionalStart(turns),
                            IF session = None THEN NULL
                            ELSE Unwrap(session).last_compact_line_index))>>
    IN IF messages = <<>> /\ pr_links = <<>> THEN <<>>
       ELSE IF turns = <<>> THEN placeholder \o prOps
       ELSE placeholder \o prOps \o deleteOps \o AllTurnOps(session_id, turns) \o final

ApplyOp(d, o) ==
    CASE o.op = "upsert_session" -> upsert_session(d, o.arg)
      [] o.op = "insert_pr_link" -> insert_pr_link(d, o.arg)
      [] o.op = "delete_memories_at" -> delete_memories_at(d, o.arg)
      [] o.op = "delete_file_mentions_at" -> delete_file_mentions_at(d, o.arg)
      [] o.op = "embed_batch" -> d
      [] o.op = "insert_memory" -> insert_memory(d, o.arg)
      [] o.op = "insert_file_mention" -> insert_file_mention(d, o.arg)
      [] o.op = "update_compact_line" -> update_compact_line(d, o.arg)
      [] o.op = "return_ok" -> d

RECURSIVE ApplyAll(_, _)
ApplyAll(d, ops) ==
    IF ops = <<>> THEN d ELSE ApplyAll(ApplyOp(d, Head(ops)), Tail(ops))

EmbedPositions(ops) == {i \in 1..Len(ops) : ops[i].op = "embed_batch"}

(***************************************************************************)
(* Spec: the hooks and commands as whole handlers on session Sid.          *)
(***************************************************************************)
\* ev records the last handler and the session row it found; compactedAt is
\* the length of the transcript when the pre-compact hook last completed.
Event(act) == [act |-> act, before |-> get_session(db, Sid), unfinished |-> FALSE]

Init ==
    /\ transcript = <<>>
    /\ db = EmptyDb
    /\ pending = <<>>
    /\ done = <<>>
    /\ atStart = EmptyDb
    /\ base = EmptyDb
    /\ ev = [act |-> "init", before |-> None, unfinished |-> FALSE]
    /\ compactedAt = NULL
    /\ found = None

\* The assistant's host appends one line to the transcript file.
AppendLine ==
    /\ pending = <<>>
    /\ Len(transcript) < MaxLines
    /\ \E k \in Kinds : transcript' = Append(transcript, k)
    /\ ev' = Event("append")
    /\ UNCHANGED <<db, pending, done, atStart, base, compactedAt, found>>

\* Stop hook / ingest command: run_ingest returns Ok.
RunIngest ==
    /\ db' = ApplyAll(db, run_ingest(db, transcript, Sid))
    /\ ev' = Event("ingest")
    /\ UNCHANGED <<transcript, pending, done, atStart, base, compactedAt, found>>

\* run_ingest returns Err: embed_batch fails for one of the turns.
RunIngestEmbedFails ==
    /\ \E i \in EmbedPositions(run_ingest(db, transcript, Sid)) :
         db' = ApplyAll(db, SubSeq(run_ingest(db, transcript, Sid), 1, i - 1))
    /\ ev' = Event("ingest_failed")
    /\ UNCHANGED <<transcript, pending, done, atStart, base, compactedAt, found>>

\* hooks/pre_compact.rs: run_ingest, then update_compact_line.
HandlePreCompact ==
    /\ db' = update_compact_line(ApplyAll(db, run_ingest(db, transcript, Sid)), Sid)
    /\ ev' = Event("pre_compact")
    /\ compactedAt' = Len(transcript)
    /\ UNCHANGED <<transcript, pending, done, atStart, base, found>>

Next == AppendLine \/ RunIngest \/ RunIngestEmbedFails \/ HandlePreCompact

Spec == Init /\ [][Next]_vars

(***************************************************************************)
(* SpecSteps: one run_ingest at a time, statement by statement.  Each      *)
(* statement is committed when it returns, so every state is one a reader  *)
(* on another connection can see and one a killed process leaves behind.   *)
(* pending holds the statements still to run, done those already run,      *)
(* atStart the database the invocation started from (both are cleared     *)
(* when the invocation ends), base the database after the last            *)
(* invocation that returned Ok.                                            *)
(***************************************************************************)
MaxStepLines == 4

StepKinds == {"U", "Um", "A", "At"}

\* unfinished: an invocation since the last one that returned Ok ended
\* without completing; on "ingest" it tells whether the invocation that has
\* just returned Ok was such a re-run.
StepEvent(act, unfinished) ==
    [act |-> act, before |-> None, unfinished |-> unfinished]

Unfinished == IF ev.act = "ingest" THEN FALSE ELSE ev.unfinished

\* The agent appends a message while no hook is running.
AppendMessage ==
    /\ pending = <<>>
    /\ Len(transcript) < MaxStepLines
    /\ \E k \in StepKinds : transcript' = Append(transcript, k)
    /\ ev' = StepEvent("append", Unfinished)
    /\ UNCHANGED <<db, pending, done, atStart, base, compactedAt, found>>

StartIngest ==
    /\ pending = <<>>
    /\ pending' = Append(run_ingest(db, transcript, Sid), Op("return_ok", Sid))
    /\ done' = <<>>
    /\ atStart' = db
    /\ ev' = StepEvent("running", Unfinished)
    /\ UNCHANGED <<transcript, db, base, compactedAt, found>>

\* The next embedder call or statement succeeds.
Step ==
    /\ pending # <<>>
    /\ Head(pending).op # "return_ok"
    /\ db' = ApplyOp(db, Head(pending))
    /\ pending' = Tail(pending)
    /\ done' = Append(done, Head(pending))
    /\ UNCHANGED <<transcript, atStart, base, ev, compactedAt, found>>

ReturnOk ==
    /\ pending # <<>>
    /\ Head(pending).op = "return_ok"
    /\ pending' = <<>>
    /\ base' = db
    /\ ev' = StepEvent("ingest", ev.unfinished)
    /\ done' = <<>>
    /\ atStart' = EmptyDb
    /\ UNCHANGED <<transcript, db, compactedAt, found>>

\* embed_batch returns Err and run_ingest propagates it.
EmbedFails ==
    /\ pending # <<>>
    /\ Head(pending).op = "embed_batch"
    /\ pending' = <<>>
    /\ ev' = StepEvent("ingest_failed", TRUE)
    /\ done' = <<>>
    /\ atStart' = EmptyDb
    /\ UNCHANGED <<transcript, db, base, compactedAt, found>>

\* The hook's timebox expires or the process is killed between statements.
Interrupt ==
    /\ pending # <<>>
    /\ pending' = <<>>
    /\ ev' = StepEvent("interrupted", TRUE)
    /\ done' = <<>>
    /\ atStart' = EmptyDb
    /\ UNCHANGED <<transcript, db, base, compactedAt, found>>

NextSteps == AppendMessage \/ StartIngest \/ Step \/ ReturnOk \/ EmbedFails \/ Interrupt

SpecSteps == Init /\ [][NextSteps]_vars

(***************************************************************************)
(* SpecHook: the PreCompact hook statement by statement; it is the only    *)
(* writer.  handle_pre_compact calls run_ingest and, when that returned    *)
(* Ok, update_compact_line on the same connection, outside any transaction.*)
(***************************************************************************)
StartPreCompact ==
    /\ pending = <<>>
    /\ pending' = run_ingest(db, transcript, Sid)
                    \o <<Op("update_compact_line", Sid), Op("return_ok", Sid)>>
    /\ done' = <<>>
    /\ atStart' = db
    /\ ev' = StepEvent("running", Unfinished)
    /\ UNCHANGED <<transcript, db, base, compactedAt, found>>

NextHook == AppendMessage \/ StartPreCompact \/ Step \/ ReturnOk \/ EmbedFails \/ Interrupt

SpecHook == Init /\ [][NextHook]_vars

(***************************************************************************)
(* SpecSearch: search_context and search_by_file_path over seeded          *)
(* databases of two sessions (seed_memory / ensure_session of the tests):  *)
(* a turn of the seed is one chunk, the turn of s2 one or two.             *)
(***************************************************************************)
MaxSearchLine == 1

MaxK == 2

SeedTexts == {0, 1}

SessionIds == {"s1", "s2"}

SeedKeys ==
    {TurnKey("s1", l) : l \in 0..MaxSearchLine} \cup {TurnKey("s2", 0)}

SeedText(j) == <<[tag |-> "User", line |-> j, at |-> <<>>]>>

\* second: the text of a second chunk of the turn of s2, or NULL.
SeedDb(texts, second, mentions, boundary) ==
    [sessions |->
       {SessionRow("s1", MaxSearchLine + 1, NULL, boundary),
        SessionRow("s2", 1, NULL, NULL)},
     memories |->
       {MemoryRow(key.session_id,
                  [line_index |-> key.line_index, chunk_index |-> 0,
                   text |-> SeedText(texts[key])]) :
          key \in {x \in SeedKeys : texts[x] # NULL}}
       \cup (IF second = NULL THEN {}
             ELSE {MemoryRow("s2", [line_index |-> 0, chunk_index |-> 1,
                                    text |-> SeedText(second)])}),
     file_mentions |->
       {FileMentionRow(key.session_id, key.line_index, <<"a">>, "Edit") :
          key \in mentions},
     pr_links |-> {}]

QueryHints == {{}, {<<"a">>}}

InitSearch ==
    /\ transcript = <<>>
    /\ pending = <<>>
    /\ done = <<>>
    /\ atStart = EmptyDb
    /\ base = EmptyDb
    /\ ev = [act |-> "init", before |-> None, unfinished |-> FALSE]
    /\ compactedAt = NULL
    /\ found = None
    /\ \E texts \in [SeedKeys -> {NULL} \cup SeedTexts] :
         \E second \in {NULL} \cup {x \in SeedTexts : NULL < texts[TurnKey("s2", 0)] /\ texts[TurnKey("s2", 0)] < x} :
           \E mentions \in SUBSET {x \in SeedKeys : texts[x] # NULL} :
             \E boundary \in {NULL} \cup 0..MaxSearchLine :
               db = SeedDb(texts, second, mentions, boundary)

\* query / subagent-start: search_context; pre-tool-use: search_by_file_path
\* with the same arguments and limit k.
Search ==
    /\ found = None
    /\ \E q \in 0..(EmbeddingLevels - 1), k \in {1, MaxK}, hints \in QueryHints,
          session_id \in {None, Some("s1")} :
         \E candidates \in vector_candidates(db, q, k * OVER_FETCH_MULTIPLIER, session_id),
            file_results \in file_candidates(db, hints, k * OVER_FETCH_MULTIPLIER,
                                             session_id) :
           \E listing \in rank_results(db, merge_results(q, candidates, file_results), k) :
             \E files \in search_by_file_path(db, hints, session_id,
                                              compact_boundary_for(db, session_id), k) :
               found' = Some([q |-> q, k |-> k, hints |-> hints,
                              session_id |-> session_id,
                              candidates |-> Range(candidates),
                              file_results |-> Range(file_results),
                              merged |-> merge_results(q, candidates, file_results),
                              listing |-> listing,
                              result |-> Range(listing), files |-> files])
    /\ UNCHANGED <<transcript, db, pending, done, atStart, base, ev, compactedAt>>

NextSearch == Search

SpecSearch == InitSearch /\ [][NextSearch]_vars

(***************************************************************************)
(* SpecPath: normalize_path on bounded paths, and the file mentions        *)
(* run_ingest stores for one turn whose user text @-mentions a path and    *)
(* whose assistant message used a file tool on a path.  A path is the      *)
(* sequence of its characters.                                             *)
(***************************************************************************)
MaxPathLen == 4

PathAlphabet == {"/", "p", "a"}

Paths == UNION {[1..n -> PathAlphabet] : n \in 0..MaxPathLen}

ProjectDirs == {<<"/", "p">>, <<"/", "p", "/">>, <<"/", "a">>}

FileTools == {"Read", "Edit", "Write"}

MentionTurns(at_path, tool, args) ==
    group_into_turns(
        <<[line_index |-> 0, kind |-> "Um", at |-> <<at_path>>, tool_summary |-> <<>>],
          [line_index |-> 1, kind |-> "At", at |-> <<>>,
           tool_summary |-> <<[tool |-> tool, args |-> args]>>]>>)

InitPath ==
    /\ transcript = <<>>
    /\ db = EmptyDb
    /\ pending = <<>>
    /\ done = <<>>
    /\ atStart = EmptyDb
    /\ base = EmptyDb
    /\ ev = [act |-> "init", before |-> None, unfinished |-> FALSE]
    /\ compactedAt = NULL
    /\ found = None

NormalizePath ==
    /\ found = None
    /\ db = EmptyDb
    /\ \E path \in Paths, project_dir \in ProjectDirs, project_root \in ProjectDirs :
         found' = Some([path |-> path, project_dir |-> project_dir,
                        project_root |-> project_root,
                        result |-> normalize_path(path, project_dir, project_root)])
    /\ UNCHANGED <<transcript, db, pending, done, atStart, base, ev, compactedAt>>

\* The loop body of run_ingest for the turn, on an empty database.
StoreMentions ==
    /\ found = None
    /\ db = EmptyDb
    /\ \E at_path \in Paths, tool \in FileTools, args \in Paths :
         db' = ApplyAll(db, AllTurnOps(Sid, MentionTurns(at_path, tool, args)))
    /\ UNCHANGED <<transcript, pending, done, atStart, base, ev, compactedAt, found>>

NextPath == NormalizePath \/ StoreMentions

SpecPath == InitPath /\ [][NextPath]_vars

(***************************************************************************)
(* pipeline/query.rs and commands/query.rs.  A prompt is the sequence of   *)
(* its characters: " " is whitespace, "/" the slash, "a" any other         *)
(* non-logographic character, "L" a logographic one (three bytes in UTF-8).*)
(***************************************************************************)
MIN_QUERY_UNITS == 3

is_whitespace(ch) == ch = " "

is_logographic(ch) == ch = "L"

len_utf8(ch) == IF is_logographic(ch) THEN 3 ELSE 1

RECURSIVE str_len(_)
str_len(text) == IF text = <<>> THEN 0 ELSE len_utf8(Head(text)) + str_len(Tail(text))

RECURSIVE trim_start(_)
trim_start(text) ==
    IF text # <<>> /\ is_whitespace(Head(text)) THEN trim_start(Tail(text)) ELSE text

RECURSIVE trim_end(_)
trim_end(text) ==
    IF text # <<>> /\ is_whitespace(text[Len(text)])
    THEN trim_end(SubSeq(text, 1, Len(text) - 1)) ELSE text

trim(text) == trim_end(trim_start(text))

\* The first token of a text that starts with a non-whitespace character.
RECURSIVE first_token(_)
first_token(text) ==
    IF text = <<>> \/ is_whitespace(Head(text)) THEN <<>>
    ELSE <<Head(text)>> \o first_token(Tail(text))

RECURSIVE split_whitespace(_)
split_whitespace(text) ==
    LET rest == trim_start(text)
    IN IF rest = <<>> THEN <<>>
       ELSE <<first_token(rest)>>
            \o split_whitespace(SubSeq(rest, Len(first_token(rest)) + 1, Len(rest)))

\* Mutant: every token that starts with '/' counts.
has_slash_command_AnySlash(text) ==
    \E i \in 1..Len(split_whitespace(text)) : split_whitespace(text)[i][1] = "/"

has_slash_command(text) ==
    \E i \in 1..Len(split_whitespace(text)) :
        LET token == split_whitespace(text)[i]
        IN /\ token[1] = "/"
           /\ str_len(token) > 1
           /\ \A j \in 2..Len(token) : token[j] # "/"

RECURSIVE count_units_from(_, _, _)
count_units_from(text, count, in_word) ==
    IF text = <<>> THEN count
    ELSE IF is_whitespace(Head(text)) THEN count_units_from(Tail(text), count, FALSE)
    ELSE IF is_logographic(Head(text)) THEN count_units_from(Tail(text), count + 1, FALSE)
    ELSE IF ~in_word THEN count_units_from(Tail(text), count + 1, TRUE)
    ELSE count_units_from(Tail(text), count, in_word)

\* Mutant: whitespace-separated words, whatever their script.
count_information_units_Words(text) == Len(split_whitespace(text))

count_information_units(text) == count_units_from(text, 0, FALSE)

Searchable == [class |-> "Searchable", reason |-> ""]

Trivial(reason) == [class |-> "Trivial", reason |-> reason]

classify_query(prompt) ==
    LET trimmed == trim(prompt)
    IN IF has_slash_command(trimmed) THEN Trivial("slash command")
       ELSE IF count_information_units(trimmed) < MIN_QUERY_UNITS
            THEN Trivial("too short")
       ELSE Searchable

\* Tokens that contain '/' (known file extensions are not modelled).
extract_file_hints(query) ==
    {split_whitespace(query)[i] :
       i \in {j \in 1..Len(split_whitespace(query)) :
                \E n \in 1..Len(split_whitespace(query)[j]) :
                    split_whitespace(query)[j][n] = "/"}}

\* The embedder on a prompt: equal prompts get equal vectors.
embed_query(text) == Len(text) % EmbeddingLevels

Outcome(result, calls, stdout) == [result |-> result, calls |-> calls, stdout |-> stdout]

SearchOutcomes(d, text, k) ==
    {Outcome("Ok", <<"classify_query", "Embedder::new", "embed_batch", "search">>,
             IF listing = <<>> THEN <<[line |-> "No matching memories found."]>>
             ELSE <<[line |-> "## Relevant past context", listing |-> listing]>>) :
       listing \in search_context_listing(d, embed_query(text),
                                          extract_file_hints(text), k, None)}

\* Mutant: the database is opened and searched before the prompt is classified.
run_query_SearchFirst(text, k, is_ready, d) ==
    IF ~is_ready THEN {Outcome("Err", <<>>, <<>>)}
    ELSE IF classify_query(text).class = "Trivial"
    THEN {Outcome("Ok", o.calls,
                  <<[line |-> "Recall skipped", reason |-> classify_query(text).reason]>>) :
            o \in SearchOutcomes(d, text, k)}
    ELSE SearchOutcomes(d, text, k)

\* The possible outcomes of the command: its result, the calls it made
\* (classification, embedder, search) and what it wrote to stdout.  When
\* mementor is not enabled the command fails before it classifies.
run_query(text, k, is_ready, d) ==
    IF ~is_ready THEN {Outcome("Err", <<>>, <<>>)}
    ELSE IF classify_query(text).class = "Trivial"
    THEN {Outcome("Ok", <<"classify_query">>,
                  <<[line |-> "Recall skipped", reason |-> classify_query(text).reason]>>)}
    ELSE SearchOutcomes(d, text, k)

(***************************************************************************)
(* SpecQuery: the query command on bounded prompts, with mementor enabled  *)
(* or not, over an empty database or one holding a single turn.            *)
(***************************************************************************)
MaxPromptLen == 5

PromptAlphabet == {" ", "/", "a", "L"}

Prompts == UNION {[1..n -> PromptAlphabet] : n \in 0..MaxPromptLen}

QueryDb ==
    SeedDb([key \in SeedKeys |-> IF key = TurnKey("s2", 0) THEN 0 ELSE NULL],
           NULL, {}, NULL)

InitQuery ==
    /\ transcript = <<>>
    /\ db \in {EmptyDb, QueryDb}
    /\ pending = <<>>
    /\ done = <<>>
    /\ atStart = EmptyDb
    /\ base = EmptyDb
    /\ ev = [act |-> "init", before |-> None, unfinished |-> FALSE]
    /\ compactedAt = NULL
    /\ found = None

RunQuery ==
    /\ found = None
    /\ \E text \in Prompts, is_ready \in BOOLEAN :
         \E outcome \in run_query(text, MaxK, is_ready, db) :
           found' = Some([prompt |-> text, is_ready |-> is_ready,
                          class |-> classify_query(text), outcome |-> outcome])
    /\ UNCHANGED <<transcript, db, pending, done, atStart, base, ev, compactedAt>>

NextQuery == RunQuery

SpecQuery == InitQuery /\ [][NextQuery]_vars

(***************************************************************************)
(* Reading the stored state                                                *)
(***************************************************************************)
TheSession == Unwrap(get_session(db, Sid))

Succeeded == ev.act \in {"ingest", "pre_compact"}

RowsAt(d, session_id, line) ==
    {m \in d.memories : m.session_id = session_id /\ m.line_index = line}

StoredTurnLines(d, session_id) ==
    {m.line_index : m \in {r \in d.memories : r.session_id = session_id}}

\* A stored turn carries forward context when one of its chunks holds a
\* [User] block of a later line.
HasForwardContext(d, session_id, line) ==
    \E m \in RowsAt(d, session_id, line) :
      \E i \in 1..Len(m.content) :
        m.content[i].tag = "User" /\ m.content[i].line > line

ProvisionalTurnLines(d, session_id) ==
    {l \in StoredTurnLines(d, session_id) : ~HasForwardContext(d, session_id, l)}

\* Lines of the transcript that hold a message, and the user lines directly
\* followed (among messages) by an assistant line.
MessageLines(t) == {i \in 0..(Len(t) - 1) : IsMessageKind(t[i + 1])}

NextMessageLine(t, i) ==
    IF \E j \in MessageLines(t) : j > i
    THEN CHOOSE j \in MessageLines(t) :
           j > i /\ \A k \in MessageLines(t) : k > i => j <= k
    ELSE NULL

PairUserLines(t) ==
    {i \in MessageLines(t) :
       /\ t[i + 1] \in {"U", "Um"}
       /\ NextMessageLine(t, i) # NULL
       /\ t[NextMessageLine(t, i) + 1] \in {"A", "At"}}

SetMax(S) == CHOOSE x \in S : \A y \in S : y <= x

(***************************************************************************)
(* C1: over an append-only transcript the stored last_line_index of the    *)
(* session never decreases from one run_ingest invocation to the next      *)
(* (and the session row, once created, stays).                             *)
(***************************************************************************)
C1_LastLineIndexMonotone ==
    ev.before # None =>
      /\ get_session(db, Sid) # None
      /\ TheSession.last_line_index >= Unwrap(ev.before).last_line_index

\* A second ingestion has advanced last_line_index from 2 to 4.
C1_Witness ==
    /\ ev.act = "ingest"
    /\ ev.before # None
    /\ Unwrap(ev.before).last_line_index = 2
    /\ TheSession.last_line_index = 4

(***************************************************************************)
(* C2: after a successful run_ingest at most one stored turn of the        *)
(* session is provisional; provisional_turn_start is set exactly when such *)
(* a turn exists, equals its start line, and that turn is the one built    *)
(* from the last user-then-assistant pair of the transcript.               *)
(***************************************************************************)
C2_OneProvisionalTurn ==
    (Succeeded /\ get_session(db, Sid) # None) =>
      /\ Cardinality(ProvisionalTurnLines(db, Sid)) <= 1
      /\ (TheSession.provisional_turn_start # NULL)
           <=> (ProvisionalTurnLines(db, Sid) # {})
      /\ TheSession.provisional_turn_start # NULL =>
           /\ ProvisionalTurnLines(db, Sid) = {TheSession.provisional_turn_start}
           /\ TheSession.provisional_turn_start = SetMax(PairUserLines(transcript))

\* Two turns are stored, the second one provisional.
C2_Witness ==
    /\ Succeeded
    /\ get_session(db, Sid) # None
    /\ TheSession.provisional_turn_start = 2
    /\ StoredTurnLines(db, Sid) = {0, 2}

NextPairUserLine(t, p) ==
    CHOOSE q \in PairUserLines(t) :
      q > p /\ \A r \in PairUserLines(t) : r > p => q <= r

UserBlock(t, i) ==
    [tag |-> "User", line |-> i, at |-> IF t[i + 1] = "Um" THEN <<PathB>> ELSE <<>>]

CompletedText(t, p) ==
    LET a == NextMessageLine(t, p)
    IN <<UserBlock(t, p), [tag |-> "Assistant", line |-> a, at |-> <<>>]>>
       \o (IF t[a + 1] = "At" THEN <<[tag |-> "Tools", line |-> a, at |-> <<>>]>>
           ELSE <<>>)
       \o <<UserBlock(t, NextPairUserLine(t, p))>>

LastChunk(d, session_id, line) ==
    CHOOSE m \in RowsAt(d, session_id, line) :
      \A r \in RowsAt(d, session_id, line) : r.chunk_index <= m.chunk_index

C5_ProvisionalTurnCompleted ==
    (/\ Succeeded
     /\ ev.before # None
     /\ Unwrap(ev.before).provisional_turn_start # NULL
     /\ \E q \in PairUserLines(transcript) :
          q > Unwrap(ev.before).provisional_turn_start)
    => LET P == Unwrap(ev.before).provisional_turn_start
           text == CompletedText(transcript, P)
           n == (Len(text) + ChunkTargetBlocks - 1) \div ChunkTargetBlocks
       IN /\ RowsAt(db, Sid, P) # {}
          /\ HasForwardContext(db, Sid, P)
          /\ {m.chunk_index : m \in RowsAt(db, Sid, P)} = 0..(n - 1)
          /\ Cardinality(RowsAt(db, Sid, P)) = n
          /\ LET last == LastChunk(db, Sid, P).content
             IN last[Len(last)] = UserBlock(transcript, NextPairUserLine(transcript, P))
          /\ \A m \in RowsAt(db, Sid, P) :
               \A i \in 1..Len(m.content) :
                 \E j \in 1..Len(text) : m.content[i] = text[j]
          /\ ProvisionalTurnLines(db, Sid) = {SetMax(PairUserLines(transcript))}
          /\ TheSession.provisional_turn_start = SetMax(PairUserLines(transcript))

\* The provisional turn at line 0 was completed and the pair at line 2 is
\* the new provisional turn.
C5_Witness ==
    /\ ev.act = "ingest"
    /\ ev.before # None
    /\ Unwrap(ev.before).provisional_turn_start = 0
    /\ TheSession.provisional_turn_start = 2
    /\ HasForwardContext(db, Sid, 0)
    /\ ProvisionalTurnLines(db, Sid) = {2}

(***************************************************************************)
(* C6: in every state reached by run_ingest and pre-compact invocations    *)
(* last_compact_line_index, when set, is at most last_line_index, stays    *)
(* set and is never smaller than the value the handler found.              *)
(***************************************************************************)
C6_CompactBoundary ==
    /\ \A s \in db.sessions :
         s.last_compact_line_index # NULL =>
           s.last_compact_line_index <= s.last_line_index
    /\ (ev.before # None /\ Unwrap(ev.before).last_compact_line_index # NULL) =>
         /\ get_session(db, Sid) # None
         /\ TheSession.last_compact_line_index
              >= Unwrap(ev.before).last_compact_line_index

\* An ingestion after a pre-compact kept the boundary while last_line_index
\* moved on.
C6_Witness ==
    /\ ev.act = "ingest"
    /\ ev.before # None
    /\ Unwrap(ev.before).last_compact_line_index = 2
    /\ TheSession.last_compact_line_index = 2
    /\ TheSession.last_line_index = 4

(***************************************************************************)
(* C7: a search made with session_id = s returns a turn of s only when the *)
(* boundary of s is set and the turn's line is at most the boundary; every *)
(* turn of another session that some unfiltered search lists is listed,    *)
(* with the same distance; and with no session_id every turn within the    *)
(* threshold or matching a hint is listed, as far as k allows.             *)
(***************************************************************************)
Keys(result) == {TurnKey(r.session_id, r.line_index) : r \in result}

FoundSearch == Unwrap(found)

RelevantKeys(d, q, hints) ==
    {TurnKey(m.session_id, m.line_index) :
       m \in {r \in d.memories : Distance(q, r.embedding) <= MAX_COSINE_DISTANCE}}
    \cup {key \in {TurnKey(f.session_id, f.line_index) :
                     f \in {g \in d.file_mentions : g.file_path \in hints}} :
            HasText(d, key)}

C7_InContextFilter ==
    found # None =>
      LET f == FoundSearch
          boundary == compact_boundary_for(db, f.session_id)
      IN /\ f.session_id # None =>
              /\ \A r \in f.result :
                   r.session_id \in f.session_id =>
                     boundary # NULL /\ r.line_index <= boundary
              /\ \A key \in f.files :
                   key.session_id \in f.session_id =>
                     boundary # NULL /\ key.line_index <= boundary
              /\ \E u \in search_context(db, f.q, f.hints, f.k, None) :
                   {r \in u : r.session_id \notin f.session_id} \subseteq f.result
              /\ \E u \in search_by_file_path(db, f.hints, None, NULL, f.k) :
                   {key \in u : key.session_id \notin f.session_id} \subseteq f.files
         /\ (f.session_id = None
             /\ Cardinality(db.memories) <= f.k * OVER_FETCH_MULTIPLIER
             /\ Cardinality(RelevantKeys(db, f.q, f.hints)) <= f.k) =>
              Keys(f.result) = RelevantKeys(db, f.q, f.hints)

\* A search from s1 lists a turn of s1 at the boundary and a turn of s2,
\* while a later turn of s1 is stored.
C7_Witness ==
    /\ found # None
    /\ FoundSearch.session_id = Some("s1")
    /\ compact_boundary_for(db, Some("s1")) = 0
    /\ TurnKey("s1", 0) \in Keys(FoundSearch.result)
    /\ TurnKey("s2", 0) \in Keys(FoundSearch.result)
    /\ RowsAt(db, "s1", 1) # {}
    /\ TurnKey("s1", 1) \notin Keys(FoundSearch.result)

(***************************************************************************)
(* C8: after the pre-compact hook has run for the session, no search with  *)
(* that session_id lists a turn that starts at a line appended after the   *)
(* hook, and the turns whose pair was complete at the hook pass the        *)
(* in-context filter.                                                      *)
(***************************************************************************)
C8_PostCompactTurnsSuppressed ==
    compactedAt # NULL =>
      /\ \A q \in 0..(EmbeddingLevels - 1), k \in 1..MaxK, hints \in QueryHints :
           \A result \in search_context(db, q, hints, k, Some(Sid)) :
             \A r \in result : r.session_id = Sid => r.line_index < compactedAt
      /\ \A l \in StoredTurnLines(db, Sid) :
           l \in PairUserLines(SubSeq(transcript, 1, compactedAt)) =>
             InContextFilter(Sid, l, Some(Sid), compact_boundary_for(db, Some(Sid)))

(***************************************************************************)
(* Claims about an invocation that fails or is cut short (SpecSteps).      *)
(***************************************************************************)
Uninterrupted(d) == ApplyAll(d, run_ingest(d, transcript, Sid))

\* C4: when run_ingest returns Ok after an earlier invocation failed in the
\* embedder or was cut off between two statements (the transcript may have
\* grown in between), the session row, chunks and file mentions are those an
\* uninterrupted ingestion of the final transcript produces, whether it
\* starts from the database of the last completed invocation or from an
\* empty one.
C4_RetryMatchesUninterrupted ==
    [][(pending # <<>> /\ pending' = <<>> /\ ev'.act = "ingest" /\ ev'.unfinished)
        => /\ db' = Uninterrupted(base)
           /\ db' = Uninterrupted(EmptyDb)]_vars

\* A re-run returned Ok after an invocation had been cut off with the
\* provisional turn's rows already deleted or only partly rewritten, and it
\* stored a completed turn and a new provisional one.
C4_Witness ==
    /\ ev.act = "ingest"
    /\ ev.unfinished
    /\ pending = <<>>
    /\ Cardinality(StoredTurnLines(db, Sid)) >= 2
    /\ db.file_mentions # {}
    /\ base = db

IsDelete(o) == o.op \in {"delete_memories_at", "delete_file_mentions_at"}

IsInsert(o) == o.op \in {"insert_memory", "insert_file_mention"}

\* C9: within one invocation the provisional turn's rows are deleted only
\* after the embeddings of its replacement have been produced; then come the
\* chunk inserts and the file-mention inserts of each turn, turns in
\* ascending start line.
C9_DeleteAfterEmbedding ==
    \A i \in 1..Len(done) :
        /\ IsDelete(done[i]) =>
             \E j \in 1..(i - 1) :
                 /\ done[j].op = "embed_batch"
                 /\ done[j].arg.line_index = done[i].arg.line_index
        /\ \A j \in 1..(i - 1) :
             /\ (IsDelete(done[i]) => ~IsInsert(done[j]))
             /\ (IsInsert(done[i]) /\ IsInsert(done[j]) =>
                   done[j].arg.line_index <= done[i].arg.line_index)
             /\ (done[i].op = "insert_memory" /\ done[j].op = "insert_file_mention"
                   => done[j].arg.line_index < done[i].arg.line_index)

TurnRows(d, line) ==
    [memories |-> {m \in d.memories : m.session_id = Sid /\ m.line_index = line},
     file_mentions |->
        {f \in d.file_mentions : f.session_id = Sid /\ f.line_index = line}]

\* C10: the writes for one turn take effect together: in every state a
\* reader or a crash can observe while an invocation is running, the rows of
\* each turn are either those the invocation found or those it ends with.
C10_TurnWritesAtomic ==
    pending # <<>> =>
        \A line \in 0..(MaxStepLines - 1) :
            \/ TurnRows(db, line) = TurnRows(atStart, line)
            \/ TurnRows(db, line) = TurnRows(ApplyAll(atStart, done \o pending), line)

(***************************************************************************)
(* Claims about the PreCompact hook (SpecHook).                            *)
(***************************************************************************)
\* C11: the session upsert that ends the hook's ingestion and the boundary
\* update take effect together: with the hook as only writer, whenever the
\* session row carries the outcome of a completed ingestion (a provisional
\* turn start is recorded), last_compact_line_index is its last_line_index.
C11_BoundaryWithFinalUpsert ==
    \A s \in get_session(db, Sid) :
        s.provisional_turn_start # NULL =>
            s.last_compact_line_index = s.last_line_index

(***************************************************************************)
(* Claims about file paths (SpecPath).                                     *)
(***************************************************************************)
\* C12: every file_path stored in file_mentions is a non-empty string that
\* does not begin with '/'.
C12_StoredPathsRelative ==
    \A f \in db.file_mentions :
        f.file_path # <<>> /\ f.file_path[1] # "/"

\* The components of a path: its maximal runs of non-'/' characters.
RECURSIVE Components(_)
Components(path) ==
    IF path = <<>> THEN <<>>
    ELSE IF Head(path) = "/" THEN Components(Tail(path))
    ELSE LET n == CHOOSE k \in 1..Len(path) :
                    /\ \A i \in 1..k : path[i] # "/"
                    /\ (k = Len(path) \/ path[k + 1] = "/")
         IN <<SubSeq(path, 1, n)>> \o Components(SubSeq(path, n + 1, Len(path)))

\* dir equals path or is an ancestor of it, component by component.
Inside(path, dir) == StartsWith(Components(path), Components(dir))

NormalizeCalls == {f \in found : "path" \in DOMAIN f}

\* C13: normalize_path returns none for every absolute path that lies inside
\* neither project_dir nor project_root.
C13_OutsideDiscarded ==
    \A f \in NormalizeCalls :
        (/\ StartsWith(f.path, <<"/">>)
         /\ ~Inside(f.path, f.project_dir)
         /\ ~Inside(f.path, f.project_root))
        => f.result = None

\* C14: normalize_path is idempotent: a path it yields is yielded again when
\* normalized with the same prefixes.
C14_NormalizeIdempotent ==
    \A f \in NormalizeCalls :
        \A r \in f.result :
            normalize_path(r, f.project_dir, f.project_root) = Some(r)

(***************************************************************************)
(* Claims about the ranking of search_context (SpecSearch).                *)
(***************************************************************************)
\* The distances of the vector candidates of a turn that pass the threshold.
PassingDistances(f, key) ==
    {Distance(f.q, c.embedding) :
       c \in {m \in f.candidates :
                /\ TurnKey(m.session_id, m.line_index) = key
                /\ Distance(f.q, m.embedding) <= MAX_COSINE_DISTANCE}}

SetMin(S) == CHOOSE x \in S : \A y \in S : x <= y

\* C15: the merged distance of a turn is the minimum of the smallest
\* distance among its vector candidates within the threshold and, when the
\* turn is a file-path match, FILE_MATCH_DISTANCE; a file match never raises
\* the distance a turn has from its vector candidates; the listing shows the
\* merged distances.
C15_MergedDistance ==
    \A f \in found :
        LET keys == {TurnKey(c.session_id, c.line_index) : c \in f.candidates}
                      \cup f.file_results
            ds(key) == PassingDistances(f, key)
                         \cup (IF key \in f.file_results
                               THEN {FILE_MATCH_DISTANCE} ELSE {})
        IN /\ DOMAIN f.merged = {key \in keys : ds(key) # {}}
           /\ \A key \in DOMAIN f.merged :
                /\ f.merged[key] = SetMin(ds(key))
                /\ PassingDistances(f, key) # {} =>
                     f.merged[key] <= SetMin(PassingDistances(f, key))
           /\ \A i \in 1..Len(f.listing) :
                f.listing[i].distance
                  = f.merged[TurnKey(f.listing[i].session_id, f.listing[i].line_index)]

\* A turn with two chunks at different distances within the threshold is
\* also a file match and keeps the smaller vector distance, while a turn
\* whose only vector distance is above FILE_MATCH_DISTANCE is lowered to it.
C15_Witness ==
    \E f \in found :
        /\ \E key \in f.file_results :
             /\ Cardinality(PassingDistances(f, key)) = 2
             /\ f.merged[key] < FILE_MATCH_DISTANCE
        /\ \E key \in f.file_results :
             /\ PassingDistances(f, key) # {}
             /\ SetMin(PassingDistances(f, key)) > FILE_MATCH_DISTANCE
             /\ f.merged[key] = FILE_MATCH_DISTANCE

\* C16: search_context lists at most k turns, each (session_id, start line)
\* at most once, in ascending order of merged distance, every distance at
\* most MAX_COSINE_DISTANCE.
C16_RankedListing ==
    \A f \in found :
        /\ Len(f.listing) <= f.k
        /\ \A i, j \in 1..Len(f.listing) :
             /\ (i < j => f.listing[i].distance <= f.listing[j].distance)
             /\ (i # j =>
                   TurnKey(f.listing[i].session_id, f.listing[i].line_index)
                     # TurnKey(f.listing[j].session_id, f.listing[j].line_index))
        /\ \A i \in 1..Len(f.listing) : f.listing[i].distance <= MAX_COSINE_DISTANCE

\* Three turns were merged, one of them beyond the threshold for its vector
\* match, and the listing holds the two nearest in order.
C16_Witness ==
    \E f \in found :
        /\ f.k = 2
        /\ Cardinality(DOMAIN f.merged) = 3
        /\ Len(f.listing) = 2
        /\ f.listing[1].distance < f.listing[2].distance
        /\ \E c \in f.candidates : Distance(f.q, c.embedding) > MAX_COSINE_DISTANCE

(***************************************************************************)
(* Claims about query classification and the query command (SpecQuery).    *)
(***************************************************************************)
QueryRuns == {f \in found : "prompt" \in DOMAIN f}

\* Position i starts a whitespace-delimited token of p.
TokenStart(p, i) == p[i] # " " /\ (i = 1 \/ p[i - 1] = " ")

\* The last position of the token that starts at i.
TokenEnd(p, i) ==
    CHOOSE e \in i..Len(p) :
        /\ \A j \in i..e : p[j] # " "
        /\ (e = Len(p) \/ p[e + 1] = " ")

\* Some token starts with '/', has more than one character and no further '/'.
HasSlashToken(p) ==
    \E i \in 1..Len(p) :
        /\ TokenStart(p, i)
        /\ p[i] = "/"
        /\ TokenEnd(p, i) > i
        /\ \A j \in (i + 1)..TokenEnd(p, i) : p[j] # "/"

\* Logographic characters plus maximal runs of non-whitespace,
\* non-logographic characters.
InformationUnits(p) ==
    Cardinality({i \in 1..Len(p) : p[i] = "L"})
    + Cardinality({i \in 1..Len(p) :
                     /\ p[i] \notin {" ", "L"}
                     /\ (i = 1 \/ p[i - 1] \in {" ", "L"})})

\* C17: classify_query returns Trivial "slash command" exactly when some
\* whitespace-delimited token of the prompt starts with '/', is longer than
\* one character and contains no further '/', whatever the prompt's length.
C17_SlashCommand ==
    \A f \in QueryRuns :
        (f.class = Trivial("slash command")) <=> HasSlashToken(f.prompt)

\* A prompt of five information units with a slash command after a word and
\* a logographic character inside the command.
C17_Witness ==
    \E f \in QueryRuns :
        /\ f.prompt = <<"a", " ", "/", "L", "L">>
        /\ f.class = Trivial("slash command")

\* C18: without a slash-command token, classify_query returns Trivial
\* "too short" exactly when the prompt has fewer than MIN_QUERY_UNITS
\* information units, and Searchable otherwise.
C18_TooShort ==
    \A f \in QueryRuns :
        ~HasSlashToken(f.prompt) =>
            /\ (f.class = Trivial("too short"))
                 <=> InformationUnits(f.prompt) < MIN_QUERY_UNITS
            /\ (f.class = Searchable)
                 <=> InformationUnits(f.prompt) >= MIN_QUERY_UNITS

\* One word split by a logographic character: three units, searchable.
C18_Witness ==
    \E f \in QueryRuns :
        /\ f.prompt = <<" ", "a", "L", "a">>
        /\ InformationUnits(f.prompt) = MIN_QUERY_UNITS
        /\ f.class = Searchable

SkippedLine(reason) == <<[line |-> "Recall skipped", reason |-> reason]>>

PairText(t, p) ==
    LET a == NextMessageLine(t, p)
    IN <<UserBlock(t, p), [tag |-> "Assistant", line |-> a, at |-> <<>>]>>
       \o (IF t[a + 1] = "At" THEN <<[tag |-> "Tools", line |-> a, at |-> <<>>]>>
           ELSE <<>>)

\* C20: on the messages parsed from any start line, group_into_turns emits
\* one turn per adjacent user-then-assistant pair and nothing when there is
\* none; a turn starts at its user message's line, start lines increase
\* strictly, every turn but the last is non-provisional and its text ends
\* with the next pair's user text, and exactly the last turn is provisional.
C20_GroupIntoTurns ==
    \A s \in 0..Len(transcript) :
        LET turns == group_into_turns(parse_transcript(transcript, s).messages)
            pairs == {p \in PairUserLines(transcript) : p >= s}
        IN /\ Len(turns) = Cardinality(pairs)
           /\ {turns[n].line_index : n \in 1..Len(turns)} = pairs
           /\ \A n, m \in 1..Len(turns) :
                n < m => turns[n].line_index < turns[m].line_index
           /\ \A n \in 1..Len(turns) :
                /\ turns[n].provisional <=> n = Len(turns)
                /\ n < Len(turns) =>
                     turns[n].text
                       = Append(PairText(transcript, turns[n].line_index),
                                UserBlock(transcript, turns[n + 1].line_index))
                /\ n = Len(turns) =>
                     turns[n].text = PairText(transcript, turns[n].line_index)

\* Two pairs were ingested, the first with a tool summary and the second
\* pair's user message as its forward context; the second is provisional.
C20_Witness ==
    /\ ev.act = "ingest"
    /\ transcript = <<"U", "At", "Um", "A">>
    /\ StoredTurnLines(db, Sid) = {0, 2}
    /\ HasForwardContext(db, Sid, 0)
    /\ ~HasForwardContext(db, Sid, 2)

\* C21: the last turn emitted by group_into_turns is provisional only when
\* no user message follows its assistant message in the input; when a later
\* user message is there, the turn ends with that message as forward context
\* and is not provisional.
C21_ProvisionalOnlyWithoutLaterUser ==
    \A s \in 0..Len(transcript) :
        LET turns == group_into_turns(parse_transcript(transcript, s).messages)
        IN turns # <<>> =>
             LET last == turns[Len(turns)]
                 a == NextMessageLine(transcript, last.line_index)
                 later == {i \in MessageLines(transcript) :
                             i > a /\ transcript[i + 1] \in {"U", "Um"}}
             IN /\ last.provisional => later = {}
                /\ later # {} =>
                     /\ ~last.provisional
                     /\ last.text[Len(last.text)]
                          = UserBlock(transcript, SetMin(later))

(***************************************************************************)
(* hooks: the three hook handlers, each with the database ready or not.    *)
(* is_ready is answered by the database driver at every invocation.        *)
(***************************************************************************)
DEFAULT_TOP_K == 5

RECENT_FILES_LIMIT == 10

\* SELECT content ... ORDER BY session_id, line_index, chunk_index, for one key.
get_turns_chunks(d, key) ==
    LET rows == {m \in d.memories :
                   m.session_id = key.session_id /\ m.line_index = key.line_index}
        sorted == InOrder(rows, [m \in rows |-> m.chunk_index])
    IN [i \in 1..Len(sorted) |-> sorted[i].content]

\* GROUP BY file_path ORDER BY MAX(line_index) DESC LIMIT ?2
get_recent_file_mentions(d, session_id, limit) ==
    LET rows == {f \in d.file_mentions : f.session_id = session_id}
        paths == {f.file_path : f \in rows}
        last_seen == [p \in paths |->
                        SetMax({f.line_index : f \in {g \in rows : g.file_path = p}})]
    IN {SubSeq(sorted, 1, Min(limit, Len(sorted))) :
          sorted \in SortedBy(paths, [p \in paths |-> 0 - last_seen[p]])}

\* The context strings search_file_context may return: <<>> is the empty
\* string, otherwise the header and the numbered memories that have text.
search_file_context(d, file_path, project_dir, project_root, k, session_id) ==
    LET normalized == normalize_path(file_path, project_dir, project_root)
    IN IF normalized = None THEN {<<>>}
       ELSE {LET numbered == [i \in 1..Len(results) |->
                                [memory |-> i,
                                 full_text |-> get_turns_chunks(d, results[i])]]
                 shown == SelectSeq(numbered, LAMBDA n : n.full_text # <<>>)
             IN IF shown = <<>> THEN <<>>
                ELSE <<[header |-> Unwrap(normalized)]>> \o shown :
               results \in file_candidates(d, normalized, k, session_id)}

HookOutcome(result, stdout, stderr, d) ==
    [result |-> result, stdout |-> stdout, stderr |-> stderr, db |-> d]

\* hooks/pre_compact.rs: Err when embed_batch fails for one of the turns.
handle_pre_compact(is_ready, d, t, session_id) ==
    IF ~is_ready
    THEN {HookOutcome("Ok", <<>>, <<"mementor is not enabled for this project.">>, d)}
    ELSE {HookOutcome("Ok", <<>>, <<>>,
                      update_compact_line(ApplyAll(d, run_ingest(d, t, session_id)),
                                          session_id))}
         \cup {HookOutcome("Err", <<>>, <<>>,
                           ApplyAll(d, SubSeq(run_ingest(d, t, session_id), 1, i - 1))) :
                 i \in EmbedPositions(run_ingest(d, t, session_id))}

\* hooks/pre_tool_use.rs: file_path is None when tool_input has neither
\* file_path nor notebook_path.
handle_pre_tool_use(file_path, is_ready, d, session_id) ==
    IF file_path = None THEN {HookOutcome("Ok", <<>>, <<>>, d)}
    ELSE IF ~is_ready THEN {HookOutcome("Ok", <<>>, <<>>, d)}
    ELSE {HookOutcome("Ok",
                      IF ctx = <<>> THEN <<>>
                      ELSE <<[hookEventName |-> "PreToolUse",
                              file_path |-> Unwrap(file_path), ctx |-> ctx]>>,
                      <<>>, d) :
            ctx \in search_file_context(d, Unwrap(file_path), ProjectDir, ProjectRoot,
                                        DEFAULT_TOP_K, Some(session_id))}

\* hooks/subagent_start.rs
handle_subagent_start(is_ready, d, session_id) ==
    IF ~is_ready THEN {HookOutcome("Ok", <<>>, <<>>, d)}
    ELSE {HookOutcome("Ok",
                      IF recent_files = <<>> THEN <<>>
                      ELSE <<[hookEventName |-> "SubagentStart",
                              file_list |-> recent_files]>>,
                      <<>>, d) :
            recent_files \in get_recent_file_mentions(d, session_id, RECENT_FILES_LIMIT)}

(***************************************************************************)
(* SpecHandlers: the host appends messages, the Stop hook ingests, and the *)
(* three hooks run with the database ready or not.  found holds the last   *)
(* hook invocation: its input, whether the database was ready, and what    *)
(* the handler returned and wrote.                                         *)
(***************************************************************************)
MaxHookLines == 3

HookFilePaths == {None, Some(PathA), Some(<<"b">>), Some(<<"/", "x">>)}

HookNames == {"PreCompact", "PreToolUse", "SubagentStart"}

Invocation(hook, is_ready, o) ==
    [hook |-> hook, is_ready |-> is_ready, result |-> o.result,
     stdout |-> o.stdout, stderr |-> o.stderr]

PreCompactHook ==
    /\ \E is_ready \in BOOLEAN :
         \E o \in handle_pre_compact(is_ready, db, transcript, Sid) :
           /\ db' = o.db
           /\ found' = Some(Invocation("PreCompact", is_ready, o))
    /\ ev' = StepEvent("PreCompact", FALSE)
    /\ UNCHANGED <<transcript, pending, done, atStart, base, compactedAt>>

PreToolUseHook ==
    /\ \E is_ready \in BOOLEAN, file_path \in HookFilePaths :
         \E o \in handle_pre_tool_use(file_path, is_ready, db, Sid) :
           /\ db' = o.db
           /\ found' = Some(Invocation("PreToolUse", is_ready, o))
    /\ ev' = StepEvent("PreToolUse", FALSE)
    /\ UNCHANGED <<transcript, pending, done, atStart, base, compactedAt>>

SubagentStartHook ==
    /\ \E is_ready \in BOOLEAN :
         \E o \in handle_subagent_start(is_ready, db, Sid) :
           /\ db' = o.db
           /\ found' = Some(Invocation("SubagentStart", is_ready, o))
    /\ ev' = StepEvent("SubagentStart", FALSE)
    /\ UNCHANGED <<transcript, pending, done, atStart, base, compactedAt>>

\* The assistant's host appends one message line to the transcript file.
HostAppends ==
    /\ Len(transcript) < MaxHookLines
    /\ \E k \in StepKinds : transcript' = Append(transcript, k)
    /\ ev' = StepEvent("append", FALSE)
    /\ UNCHANGED <<db, pending, done, atStart, base, compactedAt, found>>

StopHook ==
    /\ db' = ApplyAll(db, run_ingest(db, transcript, Sid))
    /\ ev' = StepEvent("ingest", FALSE)
    /\ UNCHANGED <<transcript, pending, done, atStart, base, compactedAt, found>>

NextHandlers ==
    HostAppends \/ StopHook \/ PreCompactHook \/ PreToolUseHook \/ SubagentStartHook

SpecHandlers == Init /\ [][NextHandlers]_vars

\* C22: when the database is not ready, each hook handler returns success,
\* writes nothing to stdout or stderr, and leaves the stored state as it was.
C22_HooksSilentWhenNotReady ==
    [][(ev'.act \in HookNames /\ ~Unwrap(found').is_ready)
         => /\ Unwrap(found').result = "Ok"
            /\ Unwrap(found').stdout = <<>>
            /\ Unwrap(found').stderr = <<>>
            /\ db' = db]_vars

(***************************************************************************)
(* db/schema.rs: every child table declares                                *)
(* session_id TEXT NOT NULL REFERENCES sessions(session_id), with no ON    *)
(* DELETE action.  SpecSchema adds the deletion of a session row to        *)
(* appends and ingests.                                                    *)
(***************************************************************************)
ChildRows(d, session_id) ==
    [memories |-> {m \in d.memories : m.session_id = session_id},
     file_mentions |-> {f \in d.file_mentions : f.session_id = session_id},
     pr_links |-> {l \in d.pr_links : l.session_id = session_id}]

NoChildRows == [memories |-> {}, file_mentions |-> {}, pr_links |-> {}]

\* DELETE FROM sessions WHERE session_id = ?1.  With foreign keys enforced
\* the statement fails while a child row references the session (the default
\* action is NO ACTION); without enforcement the session row goes and the
\* child rows stay.
delete_session(d, session_id, foreign_keys) ==
    IF foreign_keys /\ ChildRows(d, session_id) # NoChildRows
    THEN [result |-> "Err", db |-> d]
    ELSE [result |-> "Ok",
          db |-> [d EXCEPT !.sessions = @ \ get_session(d, session_id)]]

DeleteSession ==
    /\ get_session(db, Sid) # None
    /\ \E foreign_keys \in BOOLEAN :
         LET o == delete_session(db, Sid, foreign_keys)
         IN /\ db' = o.db
            /\ found' = Some([foreign_keys |-> foreign_keys, result |-> o.result,
                              children |-> ChildRows(db, Sid)])
    /\ ev' = Event("delete_session")
    /\ UNCHANGED <<transcript, pending, done, atStart, base, compactedAt>>

NextSchema == AppendLine \/ RunIngest \/ DeleteSession

SpecSchema == Init /\ [][NextSchema]_vars

\* C23: once a session row has been deleted, no row of memories,
\* file_mentions or pr_links references the deleted session.
C23_DeleteSessionCascades ==
    (ev.act = "delete_session" /\ get_session(db, Sid) = None)
        => ChildRows(db, Sid) = NoChildRows

\* The line run_ingest reads from: the provisional turn's start if there is
\* one, else last_line_index, else 0 for an unknown session.
ReadFrom(d, session_id) ==
    LET session == get_session(d, session_id)
    IN IF session = None THEN 0
       ELSE IF Unwrap(session).provisional_turn_start # NULL
            THEN Unwrap(session).provisional_turn_start
            ELSE Unwrap(session).last_line_index

ParsedFrom(d, t, session_id) == parse_transcript(t, ReadFrom(d, session_id))

\* C24: when parsing from the read offset yields no messages and no PR links,
\* run_ingest cannot fail and leaves every table as it was; no session row
\* appears for an unknown session.
C24_EmptyParseLeavesTables ==
    [][(/\ ev'.act = "ingest"
        /\ ParsedFrom(db, transcript, Sid).messages = <<>>
        /\ ParsedFrom(db, transcript, Sid).pr_links = <<>>)
         => /\ db' = db
            /\ EmbedPositions(run_ingest(db, transcript, Sid)) = {}]_vars

\* run_ingest has returned for an unknown session whose transcript holds
\* lines but neither messages nor PR links, and nothing is stored.
C24_Witness ==
    /\ ev.act = "ingest"
    /\ ev.before = None
    /\ transcript # <<>>
    /\ ParsedFrom(db, transcript, Sid).messages = <<>>
    /\ db = EmptyDb

\* The lines of t from the read offset on that parse to a message or a PR link.
SeenLines(d, t, session_id) ==
    {i \in ReadFrom(d, session_id)..(Len(t) - 1) : IsMessageKind(t[i + 1]) \/ t[i + 1] = "P"}

\* C25: when run_ingest parses a message or a PR link but no turn forms, the
\* session's last_line_index afterwards is past the last line seen.
C25_NoTurnsAdvances ==
    [][(/\ ev'.act = "ingest"
        /\ SeenLines(db, transcript, Sid) # {}
        /\ group_into_turns(ParsedFrom(db, transcript, Sid).messages) = <<>>)
         => /\ get_session(db', Sid) # None
            /\ Unwrap(get_session(db', Sid)).last_line_index
                 > SetMax(SeenLines(db, transcript, Sid))]_vars

\* C26: a line that is empty or fails JSON parsing is skipped and parsing goes
\* on: from every start line, each later message or PR-link line is in the
\* result under its absolute 0-based line index, in file order, and nothing
\* else is.
C26_MalformedLinesSkipped ==
    \A s \in 0..Len(transcript) :
        LET r == parse_transcript(transcript, s)
            msgs == {i \in s..(Len(transcript) - 1) : IsMessageKind(transcript[i + 1])}
            prs == {i \in s..(Len(transcript) - 1) : transcript[i + 1] = "P"}
        IN /\ {r.messages[j].line_index : j \in 1..Len(r.messages)} = msgs
           /\ Len(r.messages) = Cardinality(msgs)
           /\ \A j \in 1..Len(r.messages) :
                /\ r.messages[j].kind = transcript[r.messages[j].line_index + 1]
                /\ j > 1 => r.messages[j - 1].line_index < r.messages[j].line_index
           /\ {r.pr_links[j].line_index : j \in 1..Len(r.pr_links)} = prs
           /\ Len(r.pr_links) = Cardinality(prs)

\* The transcript starts with a skipped line, and the turn behind it has been
\* ingested under the user message's line index 1.
C26_Witness ==
    /\ ev.act = "ingest"
    /\ Len(transcript) >= 3
    /\ transcript[1] = "N"
    /\ transcript[2] \in {"U", "Um"}
    /\ transcript[3] \in {"A", "At"}
    /\ 1 \in StoredTurnLines(db, Sid)

(***************************************************************************)
(* transcript/types.rs: tool summaries.  A string is the sequence of its   *)
(* grapheme clusters: "a", the double quote, the backslash, and "L", one   *)
(* cluster of three bytes.  Chars spells out the literals of the format    *)
(* strings.                                                                *)
(***************************************************************************)
\* 80 in types.rs; scaled to the length of the values explored.
MAX_VALUE_GRAPHEMES == 2

Chars(str) ==
    CASE str = "Read" -> <<"R", "e", "a", "d">>
      [] str = "Edit" -> <<"E", "d", "i", "t">>
      [] str = "Write" -> <<"W", "r", "i", "t", "e">>
      [] str = "NotebookEdit" -> <<"N", "o", "t", "e", "b", "o", "o", "k", "E", "d", "i", "t">>
      [] str = "Grep" -> <<"G", "r", "e", "p">>
      [] str = "Glob" -> <<"G", "l", "o", "b">>
      [] str = "Bash" -> <<"B", "a", "s", "h">>
      [] str = "Task" -> <<"T", "a", "s", "k">>
      [] str = "Skill" -> <<"S", "k", "i", "l", "l">>
      [] str = "WebFetch" -> <<"W", "e", "b", "F", "e", "t", "c", "h">>
      [] str = "WebSearch" -> <<"W", "e", "b", "S", "e", "a", "r", "c", "h">>
      [] str = "TodoWrite" -> <<"T", "o", "d", "o", "W", "r", "i", "t", "e">>
      [] str = "Other" -> <<"O", "t", "h", "e", "r">>
      [] str = "desc" -> <<"d", "e", "s", "c">>
      [] str = "cmd" -> <<"c", "m", "d">>
      [] str = "pattern" -> <<"p", "a", "t", "t", "e", "r", "n">>
      [] str = "path" -> <<"p", "a", "t", "h">>
      [] str = "prompt" -> <<"p", "r", "o", "m", "p", "t">>
      [] str = "skill" -> <<"s", "k", "i", "l", "l">>
      [] str = "args" -> <<"a", "r", "g", "s">>
      [] str = "url" -> <<"u", "r", "l">>
      [] str = "query" -> <<"q", "u", "e", "r", "y">>
      [] str = "cell_id" -> <<"c", "e", "l", "l", "_", "i", "d">>
      [] str = "edit_mode" -> <<"e", "d", "i", "t", "_", "m", "o", "d", "e">>

RECURSIVE escape_quotes(_)
escape_quotes(s) ==
    IF s = <<>> THEN <<>>
    ELSE (IF Head(s) = "\"" THEN <<"\\", "\"">> ELSE <<Head(s)>>) \o escape_quotes(Tail(s))

\* Mutant: cuts at max_graphemes bytes.
RECURSIVE truncate_Bytes(_, _)
truncate_Bytes(s, max_graphemes) ==
    IF str_len(s) <= max_graphemes THEN s
    ELSE IF s = <<>> \/ len_utf8(Head(s)) > max_graphemes THEN <<".", ".", ".">>
    ELSE <<Head(s)>> \o truncate_Bytes(Tail(s), max_graphemes - len_utf8(Head(s)))

\* s.len() counts bytes; grapheme_indices counts clusters.
truncate(s, max_graphemes) ==
    IF str_len(s) <= max_graphemes THEN s
    ELSE IF Len(s) > max_graphemes
         THEN SubSeq(s, 1, max_graphemes) \o <<".", ".", ".">>
         ELSE s

json_str(input, key) == IF key \in DOMAIN input THEN Some(input[key]) ELSE None

RECURSIVE join(_, _)
join(parts, sep) ==
    IF parts = <<>> THEN <<>>
    ELSE IF Len(parts) = 1 THEN parts[1]
    ELSE parts[1] \o sep \o join(Tail(parts), sep)

format_kv(name, pairs) ==
    IF pairs = <<>> THEN Chars(name)
    ELSE Chars(name) \o <<"(">> \o join(pairs, <<",", " ">>) \o <<")">>

\* format!("{key}=\"{}\"", value)
KeyValue(key, value) == Chars(key) \o <<"=", "\"">> \o value \o <<"\"">>

\* c.lines().next().unwrap_or(c)
RECURSIVE first_line(_)
first_line(c) ==
    IF c = <<>> \/ Head(c) = "\n" THEN <<>> ELSE <<Head(c)>> \o first_line(Tail(c))

\* The pairs pushed for the fields that are present, in order.
Pairs(optional) == join(SelectSeq(optional, LAMBDA o : o # <<>>), <<>>)

summarize_single_field(name, input, key) ==
    IF json_str(input, key) # None
    THEN Chars(name) \o <<"(">>
         \o KeyValue(key, escape_quotes(truncate(input[key], MAX_VALUE_GRAPHEMES)))
         \o <<")">>
    ELSE Chars(name)

summarize_file_tool(name, input) ==
    IF json_str(input, "file_path") # None
    THEN Chars(name) \o <<"(">> \o input["file_path"] \o <<")">>
    ELSE Chars(name)

summarize_notebook_edit(input) ==
    LET parts ==
          Pairs(<<IF json_str(input, "notebook_path") # None
                  THEN <<input["notebook_path"]>> ELSE <<>>,
                  IF json_str(input, "cell_id") # None
                  THEN <<KeyValue("cell_id", escape_quotes(input["cell_id"]))>> ELSE <<>>,
                  IF json_str(input, "edit_mode") # None
                  THEN <<KeyValue("edit_mode", input["edit_mode"])>> ELSE <<>>>>)
    IN format_kv("NotebookEdit", parts)

summarize_search_tool(name, input) ==
    IF json_str(input, "pattern") = None THEN Chars(name)
    ELSE format_kv(name,
           Pairs(<<<<KeyValue("pattern",
                              escape_quotes(truncate(input["pattern"],
                                                     MAX_VALUE_GRAPHEMES)))>>,
                   IF json_str(input, "path") # None
                   THEN <<KeyValue("path", escape_quotes(input["path"]))>> ELSE <<>>>>))

summarize_bash(input) ==
    format_kv("Bash",
      Pairs(<<IF json_str(input, "description") # None
              THEN <<KeyValue("desc",
                              escape_quotes(truncate(input["description"],
                                                     MAX_VALUE_GRAPHEMES)))>>
              ELSE <<>>,
              IF json_str(input, "command") # None
              THEN <<KeyValue("cmd",
                              escape_quotes(truncate(first_line(input["command"]),
                                                     MAX_VALUE_GRAPHEMES)))>>
              ELSE <<>>>>))

summarize_task(input) ==
    format_kv("Task",
      Pairs(<<IF json_str(input, "description") # None
              THEN <<KeyValue("desc",
                              escape_quotes(truncate(input["description"],
                                                     MAX_VALUE_GRAPHEMES)))>>
              ELSE <<>>,
              IF json_str(input, "prompt") # None
              THEN <<KeyValue("prompt",
                              escape_quotes(truncate(first_line(input["prompt"]),
                                                     MAX_VALUE_GRAPHEMES)))>>
              ELSE <<>>>>))

summarize_skill(input) ==
    format_kv("Skill",
      Pairs(<<IF json_str(input, "skill") # None
              THEN <<KeyValue("skill", escape_quotes(input["skill"]))>> ELSE <<>>,
              IF json_str(input, "args") # None
              THEN <<KeyValue("args",
                              escape_quotes(truncate(input["args"],
                                                     MAX_VALUE_GRAPHEMES)))>>
              ELSE <<>>>>))

is_skipped_tool(name) == name = "TodoWrite"

\* input is None when the tool_use block has no input.
summarize_tool(name, input) ==
    IF is_skipped_tool(name) THEN <<>>
    ELSE IF input = None THEN Chars(name)
    ELSE LET i == Unwrap(input)
         IN CASE name \in {"Read", "Edit", "Write"} -> summarize_file_tool(name, i)
              [] name = "NotebookEdit" -> summarize_notebook_edit(i)
              [] name \in {"Grep", "Glob"} -> summarize_search_tool(name, i)
              [] name = "Bash" -> summarize_bash(i)
              [] name = "Task" -> summarize_task(i)
              [] name = "Skill" -> summarize_skill(i)
              [] name = "WebFetch" -> summarize_single_field("WebFetch", i, "url")
              [] name = "WebSearch" -> summarize_single_field("WebSearch", i, "query")
              [] OTHER -> Chars(name)

(***************************************************************************)
(* pipeline/ingest.rs: reading a summary back.                             *)
(***************************************************************************)
\* str::find: the 1-based position of the first occurrence, 0 when absent.
Find(s, needle) ==
    LET at == {i \in 1..(Len(s) - Len(needle) + 1) :
                 SubSeq(s, i, i + Len(needle) - 1) = needle}
    IN IF at = {} THEN 0 ELSE SetMin(at)

\* The text between the first "(" and the last character of the summary.
summary_args(summary) ==
    LET paren_idx == Find(summary, <<"(">>)
    IN IF paren_idx = 0 THEN None
       ELSE Some(SubSeq(summary, paren_idx + 1, Len(summary) - 1))

\* The position of the first quote not preceded by a backslash, 0 when none.
RECURSIVE closing_quote(_, _, _)
closing_quote(remaining, idx, prev_backslash) ==
    IF idx > Len(remaining) THEN 0
    ELSE IF remaining[idx] = "\"" /\ ~prev_backslash THEN idx
    ELSE closing_quote(remaining, idx + 1, remaining[idx] = "\\")

extract_quoted_value(args, key) ==
    LET needle == Chars(key) \o <<"=", "\"">>
        found_at == Find(args, needle)
        remaining == SubSeq(args, found_at + Len(needle), Len(args))
        close == closing_quote(remaining, 1, FALSE)
    IN IF found_at = 0 \/ close = 0 THEN None
       ELSE Some(SubSeq(remaining, 1, close - 1))

(***************************************************************************)
(* SpecSummary: summarize_tool on bounded tool inputs.                     *)
(***************************************************************************)
MaxValueLen == 3

ValueAlphabet == {"a", "\"", "\\", "L"}

Values == UNION {[1..n -> ValueAlphabet] : n \in 0..MaxValueLen}

ShortValues == {<<"a">>, <<"\"">>}

ToolCalls ==
    {[name |-> n, input |-> Some([file_path |-> v])] :
       n \in {"Read", "Edit", "Write"}, v \in Values}
    \cup {[name |-> "NotebookEdit", input |-> Some([notebook_path |-> v])] : v \in Values}
    \cup {[name |-> "NotebookEdit",
           input |-> Some([notebook_path |-> <<"a">>, cell_id |-> v,
                           edit_mode |-> <<"a">>])] : v \in Values}
    \cup {[name |-> n, input |-> Some([pattern |-> v])] :
            n \in {"Grep", "Glob"}, v \in Values}
    \cup {[name |-> "Grep", input |-> Some([pattern |-> w, path |-> v])] :
            w \in ShortValues, v \in Values}
    \cup {[name |-> "Grep", input |-> Some([path |-> v])] : v \in ShortValues}
    \cup {[name |-> "Bash", input |-> Some([command |-> v])] : v \in Values}
    \cup {[name |-> "Bash", input |-> Some([description |-> w, command |-> v])] :
            w \in ShortValues, v \in Values}
    \cup {[name |-> "Bash", input |-> Some([description |-> v, command |-> w])] :
            w \in ShortValues, v \in Values}
    \cup {[name |-> "Task", input |-> Some([description |-> w, prompt |-> v])] :
            w \in ShortValues, v \in Values}
    \cup {[name |-> "Skill", input |-> Some([skill |-> v, args |-> w])] :
            w \in ShortValues, v \in Values}
    \cup {[name |-> "Skill", input |-> Some([args |-> v])] : v \in Values}
    \cup {[name |-> "WebFetch", input |-> Some([url |-> v])] : v \in Values}
    \cup {[name |-> "WebSearch", input |-> Some([query |-> v])] : v \in Values}
    \cup {[name |-> n, input |-> None] : n \in {"Bash", "TodoWrite", "Other"}}
    \cup {[name |-> n, input |-> Some([file_path |-> v])] :
            n \in {"TodoWrite", "Other"}, v \in ShortValues}

InitSummary == Init

Summarize ==
    /\ found = None
    /\ \E call \in ToolCalls :
         found' = Some([name |-> call.name, input |-> call.input,
                        summary |-> summarize_tool(call.name, call.input)])
    /\ ev' = StepEvent("summarize_tool", FALSE)
    /\ UNCHANGED <<transcript, db, pending, done, atStart, base, compactedAt>>

NextSummary == Summarize

SpecSummary == InitSummary /\ [][NextSummary]_vars

FoundSummary == Unwrap(found)

\* The key="..." values of a Bash or Grep summary: the key and the value the
\* summarizer escapes.
EmittedQuoted(name, input) ==
    IF name = "Bash"
    THEN {[key |-> "desc", value |-> truncate(input["description"], MAX_VALUE_GRAPHEMES)] :
            x \in {k \in {"description"} : k \in DOMAIN input}}
         \cup {[key |-> "cmd",
                value |-> truncate(first_line(input["command"]), MAX_VALUE_GRAPHEMES)] :
                 x \in {k \in {"command"} : k \in DOMAIN input}}
    ELSE IF name = "Grep" /\ "pattern" \in DOMAIN input
    THEN {[key |-> "pattern", value |-> truncate(input["pattern"], MAX_VALUE_GRAPHEMES)]}
         \cup {[key |-> "path", value |-> input["path"]] :
                 x \in {k \in {"path"} : k \in DOMAIN input}}
    ELSE {}

\* Undoes escape_quotes: a backslash before a quote is dropped.
RECURSIVE Unescape(_)
Unescape(s) ==
    IF s = <<>> THEN <<>>
    ELSE IF Len(s) >= 2 /\ s[1] = "\\" /\ s[2] = "\""
         THEN <<"\"">> \o Unescape(SubSeq(s, 3, Len(s)))
         ELSE <<Head(s)>> \o Unescape(Tail(s))

\* C27: for every value v a Bash or Grep summary emits as key="...",
\* extract_quoted_value on the summary's arguments returns the escaped form of
\* v, and unescaping that gives v back, also when v holds double quotes and
\* backslashes.
C27_QuotedValueRoundTrip ==
    (found # None /\ FoundSummary.input # None) =>
        \A e \in EmittedQuoted(FoundSummary.name, Unwrap(FoundSummary.input)) :
            /\ summary_args(FoundSummary.summary) # None
            /\ extract_quoted_value(Unwrap(summary_args(FoundSummary.summary)), e.key)
                 = Some(escape_quotes(e.value))
            /\ Unescape(escape_quotes(e.value)) = e.value

\* The string values a summary shows: the value, and whether the summarizer
\* escapes its quotes.
EmittedValues(name, input) ==
    IF \/ name \notin {"Read", "Edit", "Write", "NotebookEdit", "Grep", "Glob", "Bash",
                       "Task", "Skill", "WebFetch", "WebSearch"}
       \/ (name \in {"Grep", "Glob"} /\ "pattern" \notin DOMAIN input)
    THEN {}
    ELSE {[value |-> IF k \in {"command", "prompt"} THEN first_line(input[k])
                     ELSE input[k],
           escaped |-> k \notin {"file_path", "notebook_path", "edit_mode"}] :
            k \in DOMAIN input}

\* At most max whole grapheme clusters, then "..." exactly when v had more.
Shown(v, max) == IF Len(v) > max THEN SubSeq(v, 1, max) \o <<".", ".", ".">> ELSE v

\* C28: in every summary of summarize_tool each string value appears as its
\* first MAX_VALUE_GRAPHEMES grapheme clusters at most, whole, followed by
\* "..." exactly when the value had more.
C28_ValuesTruncated ==
    (found # None /\ FoundSummary.input # None) =>
        \A e \in EmittedValues(FoundSummary.name, Unwrap(FoundSummary.input)) :
            LET shown == Shown(e.value, MAX_VALUE_GRAPHEMES)
                text == IF e.escaped THEN escape_quotes(shown) ELSE shown
                whole == IF e.escaped THEN escape_quotes(e.value) ELSE e.value
            IN /\ Find(FoundSummary.summary, text) # 0
               /\ Len(e.value) > MAX_VALUE_GRAPHEMES
                    => Find(FoundSummary.summary, whole) = 0

(***************************************************************************)
(* SpecPrLinks: the PR-link part of run_ingest on transcripts that hold    *)
(* only pr-link entries, for two sessions, two PR numbers and two URLs.    *)
(***************************************************************************)
MaxPrLinks == 2

PrNumbers == {14, 15}

PrUrls == {"url14", "url14b"}

PrEntries ==
    UNION {[1..n -> [pr_number : PrNumbers, pr_url : PrUrls]] : n \in 1..MaxPrLinks}

\* run_ingest with no messages: the session record is ensured, then every
\* entry is inserted in file order.
PrLinkOps(d, session_id, entries) ==
    (IF get_session(d, session_id) = None
     THEN <<Op("upsert_session", SessionRow(session_id, 0, NULL, NULL))>>
     ELSE <<>>)
    \o [i \in 1..Len(entries) |->
          Op("insert_pr_link",
             [session_id |-> session_id,
              pr_number |-> entries[i].pr_number,
              pr_url |-> entries[i].pr_url])]

IngestPrLinks ==
    /\ \E session_id \in SessionIds, entries \in PrEntries :
         /\ db' = ApplyAll(db, PrLinkOps(db, session_id, entries))
         /\ found' = Some([session_id |-> session_id, entries |-> entries])
    /\ ev' = StepEvent("pr_links", FALSE)
    /\ UNCHANGED <<transcript, pending, done, atStart, base, compactedAt>>

NextPrLinks == IngestPrLinks

SpecPrLinks == Init /\ [][NextPrLinks]_vars

\* C29: however often a pr-link entry is ingested, pr_links holds exactly one
\* row per (session_id, pr_number) that was ingested, and an insert with a
\* key already stored leaves the stored row as it was.
C29_PrLinkIdempotent ==
    [][ev'.act = "pr_links" =>
         /\ \A p, q \in db'.pr_links :
              (p.session_id = q.session_id /\ p.pr_number = q.pr_number) => p = q
         /\ \A i \in 1..Len(Unwrap(found').entries) :
              \E p \in db'.pr_links :
                /\ p.session_id = Unwrap(found').session_id
                /\ p.pr_number = Unwrap(found').entries[i].pr_number
         /\ db.pr_links \subseteq db'.pr_links]_vars

\* An entry has been ingested whose (session_id, pr_number) was stored with
\* another URL, and the stored row still has its own URL.
C29_Witness ==
    /\ ev.act = "pr_links"
    /\ \E i \in 1..Len(Unwrap(found).entries) :
         \E p \in db.pr_links :
           /\ p.session_id = Unwrap(found).session_id
           /\ p.pr_number = Unwrap(found).entries[i].pr_number
           /\ p.pr_url # Unwrap(found).entries[i].pr_url
    /\ \E i, j \in 1..Len(Unwrap(found).entries) :
         i # j /\ Unwrap(found).entries[i] = Unwrap(found).entries[j]

(***************************************************************************)
(* SpecChunk: chunk_turn on turns of bounded length, long enough for       *)
(* three chunks.                                                           *)
(***************************************************************************)
MaxTurnBlocks == 5

TurnBlocks ==
    {[tag |-> "User", line |-> 0, at |-> <<>>],
     [tag |-> "Assistant", line |-> 1, at |-> <<>>]}

TurnTexts == UNION {[1..n -> TurnBlocks] : n \in 0..MaxTurnBlocks}

ChunkTurn ==
    /\ found = None
    /\ \E line_index \in 0..1, text \in TurnTexts, provisional \in BOOLEAN :
         LET turn == [line_index |-> line_index, provisional |-> provisional,
                      text |-> text, tool_summary |-> <<>>]
         IN found' = Some([turn |-> turn, chunks |-> chunk_turn(turn)])
    /\ ev' = StepEvent("chunk_turn", FALSE)
    /\ UNCHANGED <<transcript, db, pending, done, atStart, base, compactedAt>>

NextChunk == ChunkTurn

SpecChunk == Init /\ [][NextChunk]_vars

\* The bodies of the chunks: each chunk's text without its overlap prefix,
\* which is as long as the tail taken from the body before it.
RECURSIVE Bodies(_, _)
Bodies(chunks, previous) ==
    IF chunks = <<>> THEN <<>>
    ELSE LET n == IF Len(previous) < ChunkOverlapBlocks THEN Len(previous)
                  ELSE ChunkOverlapBlocks
             body == SubSeq(Head(chunks).text, n + 1, Len(Head(chunks).text))
         IN <<body>> \o Bodies(Tail(chunks), body)

RECURSIVE Concat(_)
Concat(seqs) == IF seqs = <<>> THEN <<>> ELSE Head(seqs) \o Concat(Tail(seqs))

NextSplit == AppendLine \/ RunIngest

SpecSplit == Init /\ [][NextSplit]_vars

\* What a single run_ingest over the whole transcript stores, starting from
\* an empty database.
SingleIngest(t) == ApplyAll(EmptyDb, run_ingest(EmptyDb, t, Sid))

\* C31: however the growth of the transcript was split over successful
\* run_ingest invocations, what is stored after the last one (turns with
\* their chunks, file mentions, PR links, session row) is what one run_ingest
\* over the complete transcript stores.
C31_SplitEqualsSingle ==
    ev.act = "ingest" => db = SingleIngest(transcript)

\* A later invocation has re-read a provisional turn and stored a second turn
\* behind it.
C31_Witness ==
    /\ ev.act = "ingest"
    /\ ev.before # None
    /\ Unwrap(ev.before).provisional_turn_start = 0
    /\ TheSession.provisional_turn_start = 2
    /\ StoredTurnLines(db, Sid) = {0, 2}
    /\ HasForwardContext(db, Sid, 0)

(***************************************************************************)
(* SpecConcurrent: the Stop hook and the PreCompact hook of one session as *)
(* two processes.  Each reads the session row and parses the transcript    *)
(* when it starts, then runs its statements one by one; no statement of    *)
(* run_ingest is inside a transaction, so the statements of the two        *)
(* processes interleave freely.  pending[1] holds the statements the Stop  *)
(* hook has still to run, pending[2] those of the PreCompact hook.         *)
(***************************************************************************)
MaxConcurrentLines == 3

ConcurrentKinds == {"U", "A"}

StatementEvent(proc, o) ==
    [act |-> o.op, proc |-> proc, before |-> get_session(db, Sid), unfinished |-> FALSE]

InitConcurrent ==
    /\ transcript = <<>>
    /\ db = EmptyDb
    /\ pending = <<<<>>, <<>>>>
    /\ done = <<>>
    /\ atStart = EmptyDb
    /\ base = EmptyDb
    /\ ev = [act |-> "init", proc |-> 0, before |-> None, unfinished |-> FALSE]
    /\ compactedAt = NULL
    /\ found = None

TranscriptGrows ==
    /\ Len(transcript) < MaxConcurrentLines
    /\ \E k \in ConcurrentKinds : transcript' = Append(transcript, k)
    /\ ev' = [act |-> "append", proc |-> 0, before |-> get_session(db, Sid),
              unfinished |-> FALSE]
    /\ UNCHANGED <<db, pending, done, atStart, base, compactedAt, found>>

\* hooks/stop: get_session and parse_transcript of run_ingest.
StopHookStarts ==
    /\ pending[1] = <<>>
    /\ run_ingest(db, transcript, Sid) # <<>>
    /\ pending' = [pending EXCEPT ![1] = run_ingest(db, transcript, Sid)]
    /\ ev' = StatementEvent(1, Op("get_session", Sid))
    /\ UNCHANGED <<transcript, db, done, atStart, base, compactedAt, found>>

\* hooks/pre_compact.rs: the same, with update_compact_line after run_ingest.
PreCompactHookStarts ==
    /\ pending[2] = <<>>
    /\ pending' = [pending EXCEPT ![2] =
                     Append(run_ingest(db, transcript, Sid),
                            Op("update_compact_line", Sid))]
    /\ ev' = StatementEvent(2, Op("get_session", Sid))
    /\ UNCHANGED <<transcript, db, done, atStart, base, compactedAt, found>>

\* The next statement of one of the two processes runs and commits.
StopHookStatement ==
    /\ pending[1] # <<>>
    /\ db' = ApplyOp(db, Head(pending[1]))
    /\ pending' = [pending EXCEPT ![1] = Tail(@)]
    /\ ev' = StatementEvent(1, Head(pending[1]))
    /\ UNCHANGED <<transcript, done, atStart, base, compactedAt, found>>

PreCompactHookStatement ==
    /\ pending[2] # <<>>
    /\ db' = ApplyOp(db, Head(pending[2]))
    /\ pending' = [pending EXCEPT ![2] = Tail(@)]
    /\ ev' = StatementEvent(2, Head(pending[2]))
    /\ UNCHANGED <<transcript, done, atStart, base, compactedAt, found>>

NextConcurrent ==
    \/ TranscriptGrows
    \/ StopHookStarts
    \/ PreCompactHookStarts
    \/ StopHookStatement
    \/ PreCompactHookStatement

SpecConcurrent == InitConcurrent /\ [][NextConcurrent]_vars

\* C32: while two run_ingest invocations of one session interleave over a
\* growing transcript, the stored last_line_index never decreases.
C32_ConcurrentLastLineIndex ==
    [][get_session(db, Sid) # None =>
         /\ get_session(db', Sid) # None
         /\ Unwrap(get_session(db', Sid)).last_line_index
              >= Unwrap(get_session(db, Sid)).last_line_index]_vars

\* C33: while run_ingest interleaves with update_compact_line, an upsert of
\* run_ingest neither moves last_compact_line_index backward nor resets a
\* boundary that is set (NULL counts as below every line).
C33_UpsertKeepsBoundary ==
    [][(ev'.act = "upsert_session" /\ get_session(db, Sid) # None) =>
         /\ get_session(db', Sid) # None
         /\ Unwrap(get_session(db', Sid)).last_compact_line_index
              >= Unwrap(get_session(db, Sid)).last_compact_line_index]_vars

(***************************************************************************)
(* search_context over a store in which the caller's own session holds     *)
(* many turns: the over-fetch of phase 3 against the size of the session.  *)
(***************************************************************************)
MaxOwnTurns == 4

\* texts: the text of the turn at each line of s1; other: the text of the
\* turn of s2, or NULL.
CrowdedDb(texts, other, boundary) ==
    [sessions |->
       {SessionRow("s1", Len(texts), NULL, boundary),
        SessionRow("s2", 1, NULL, NULL)},
     memories |->
       {MemoryRow("s1", [line_index |-> i - 1, chunk_index |-> 0,
                         text |-> SeedText(texts[i])]) : i \in 1..Len(texts)}
       \cup (IF other = NULL THEN {}
             ELSE {MemoryRow("s2", [line_index |-> 0, chunk_index |-> 0,
                                    text |-> SeedText(other)])}),
     file_mentions |-> {},
     pr_links |-> {}]

InitCrowded ==
    /\ transcript = <<>>
    /\ pending = <<>>
    /\ done = <<>>
    /\ atStart = EmptyDb
    /\ base = EmptyDb
    /\ ev = [act |-> "init", before |-> None, unfinished |-> FALSE]
    /\ compactedAt = NULL
    /\ found = None
    /\ \E n \in 0..MaxOwnTurns :
         \E texts \in [1..n -> SeedTexts], other \in {NULL} \cup SeedTexts,
            boundary \in {NULL, 0} :
           db = CrowdedDb(texts, other, boundary)

NextCrowded == Search

SpecCrowded == InitCrowded /\ [][NextCrowded]_vars

\* The stored chunks that pass the in-context filter of the search and lie
\* within MAX_COSINE_DISTANCE of its query.
PassingChunks ==
    LET f == FoundSearch
    IN {m \in db.memories :
          /\ InContextFilter(m.session_id, m.line_index, f.session_id,
                             compact_boundary_for(db, f.session_id))
          /\ Distance(f.q, m.embedding) <= MAX_COSINE_DISTANCE}

\* C34: when some turn that passes the in-context filter has a chunk within
\* MAX_COSINE_DISTANCE of the query, the result of search_context is not
\* empty and contains a nearest such turn, however many closer chunks of the
\* caller's own in-context session are stored.
C34_NearestPassingTurnFound ==
    (found # None /\ PassingChunks # {}) =>
      /\ FoundSearch.result # {}
      /\ \E m \in PassingChunks :
           /\ \A o \in PassingChunks :
                Distance(FoundSearch.q, m.embedding) <= Distance(FoundSearch.q, o.embedding)
           /\ TurnKey(m.session_id, m.line_index) \in Keys(FoundSearch.result)


\* C35: after every run_ingest that returns Ok and stores at least one turn,
\* provisional_turn_start is set and below last_line_index, every stored turn
\* of the session starts below last_line_index, and the offset the next
\* invocation reads from is the provisional turn's start, at or before the
\* first line that has not been read.
C35_ProvisionalBelowLastLine ==
    [][(/\ ev'.act \in {"ingest", "pre_compact"}
        /\ group_into_turns(ParsedFrom(db, transcript, Sid).messages) # <<>>)
         => /\ get_session(db', Sid) # None
            /\ LET session == Unwrap(get_session(db', Sid))
               IN /\ session.provisional_turn_start # NULL
                  /\ session.provisional_turn_start < session.last_line_index
                  /\ \A l \in StoredTurnLines(db', Sid) : l < session.last_line_index
                  /\ ReadFrom(db', Sid) = session.provisional_turn_start
                  /\ ReadFrom(db', Sid) < Len(transcript)]_vars

\* A second invocation has re-read the provisional turn at line 0 and a user
\* message behind it: last_line_index is past that message, two lines past
\* the turn's end.
C35_Witness ==
    /\ ev.act = "ingest"
    /\ ev.before # None
    /\ Len(transcript) = 4
    /\ transcript[4] \in {"U", "Um"}
    /\ StoredTurnLines(db, Sid) = {0}
    /\ TheSession.provisional_turn_start = 0
    /\ TheSession.last_line_index = 4


(***************************************************************************)
(* search_by_file_path over stores whose turns mention up to two paths,    *)
(* a path possibly through two tools.                                      *)
(***************************************************************************)
FilePaths == {<<"a">>, <<"b">>}

\* The rows of the query in the order of ORDER BY match_count DESC; groups of
\* equal count come in any order.
search_by_file_path_rows(d, file_paths, exclude_session_id, compact_boundary, k) ==
    UNION {SortedBy(T, [key \in T |-> 0 - MatchCount(d, key, file_paths)]) :
             T \in search_by_file_path(d, file_paths, exclude_session_id,
                                       compact_boundary, k)}

\* mentions: (turn, path) pairs stored through Edit; again: those also
\* stored through Read.
FilesDb(mentions, again, boundary) ==
    [sessions |->
       {SessionRow("s1", MaxSearchLine + 1, NULL, boundary),
        SessionRow("s2", 1, NULL, NULL)},
     memories |-> {},
     file_mentions |->
       {FileMentionRow(x[1].session_id, x[1].line_index, x[2], "Edit") : x \in mentions}
       \cup {FileMentionRow(x[1].session_id, x[1].line_index, x[2], "Read") : x \in again},
     pr_links |-> {}]

InitFiles ==
    /\ transcript = <<>>
    /\ pending = <<>>
    /\ done = <<>>
    /\ atStart = EmptyDb
    /\ base = EmptyDb
    /\ ev = [act |-> "init", before |-> None, unfinished |-> FALSE]
    /\ compactedAt = NULL
    /\ found = None
    /\ \E mentions \in SUBSET (SeedKeys \X FilePaths) :
         \E again \in {{}} \cup {{x} : x \in mentions}, boundary \in {NULL, 0} :
           db = FilesDb(mentions, again, boundary)

\* pre-tool-use and phase 4 of search_context: search_by_file_path.
FileSearch ==
    /\ found = None
    /\ \E hints \in SUBSET FilePaths, k \in {1, MaxK}, session_id \in {None, Some("s1")} :
         \E rows \in search_by_file_path_rows(db, hints, session_id,
                                              compact_boundary_for(db, session_id), k) :
           found' = Some([hints |-> hints, k |-> k, session_id |-> session_id,
                          rows |-> rows])
    /\ UNCHANGED <<transcript, db, pending, done, atStart, base, ev, compactedAt>>

NextFiles == FileSearch

SpecFiles == InitFiles /\ [][NextFiles]_vars

\* The turns with a mention of one of the queried paths that pass the
\* in-context filter of the search.
PassingMatches ==
    LET f == FoundSearch
    IN {TurnKey(g.session_id, g.line_index) :
          g \in {m \in db.file_mentions :
                   /\ m.file_path \in f.hints
                   /\ InContextFilter(m.session_id, m.line_index, f.session_id,
                                      compact_boundary_for(db, f.session_id))}}

\* C36: search_by_file_path returns each matching (session_id, start line) at
\* most once, in descending order of the number of distinct queried paths the
\* turn mentions, the k highest of the turns that pass the in-context filter
\* (all of them when there are fewer than k).
C36_FilePathRanking ==
    found # None =>
      LET f == FoundSearch
          count(key) == MatchCount(db, key, f.hints)
      IN /\ \A i, j \in 1..Len(f.rows) :
              i < j => /\ f.rows[i] # f.rows[j]
                       /\ count(f.rows[i]) >= count(f.rows[j])
         /\ Range(f.rows) \subseteq PassingMatches
         /\ Len(f.rows) = Min(f.k, Cardinality(PassingMatches))
         /\ \A key \in PassingMatches \ Range(f.rows) :
              \A i \in 1..Len(f.rows) : count(key) <= count(f.rows[i])

\* Two rows are returned, a turn with both queried paths (one of them
\* mentioned through two tools) before a turn with one, while a turn of the
\* caller's session with both paths is filtered out.
C36_Witness ==
    /\ found # None
    /\ FoundSearch.k = 2
    /\ FoundSearch.session_id = Some("s1")
    /\ Len(FoundSearch.rows) = 2
    /\ MatchCount(db, FoundSearch.rows[1], FoundSearch.hints) = 2
    /\ MatchCount(db, FoundSearch.rows[2], FoundSearch.hints) = 1
    /\ \E m \in db.file_mentions :
         /\ m.tool_name = "Read"
         /\ TurnKey(m.session_id, m.line_index) = FoundSearch.rows[1]
    /\ \E m \in db.file_mentions :
         /\ m.session_id = "s1"
         /\ TurnKey(m.session_id, m.line_index) \notin PassingMatches
         /\ MatchCount(db, TurnKey(m.session_id, m.line_index), FoundSearch.hints) = 2


(***************************************************************************)
(* parse_transcript from every start line of every short transcript,       *)
(* including lines that yield a raw entry only.                            *)
(***************************************************************************)
MaxParseLines == 4

ParseKinds == Kinds \cup {"R"}

RECURSIVE Transcripts(_)
Transcripts(n) ==
    IF n = 0 THEN {<<>>}
    ELSE Transcripts(n - 1)
         \cup {Append(t, k) : t \in {x \in Transcripts(n - 1) : Len(x) = n - 1},
                              k \in ParseKinds}

InitParse ==
    /\ transcript \in Transcripts(MaxParseLines)
    /\ db = EmptyDb
    /\ pending = <<>>
    /\ done = <<>>
    /\ atStart = EmptyDb
    /\ base = EmptyDb
    /\ ev = [act |-> "init", before |-> None, unfinished |-> FALSE]
    /\ compactedAt = NULL
    /\ found = None

\* parse_transcript(path, start_line), the start line possibly past the end.
ParseFrom ==
    /\ found = None
    /\ \E start_line \in 0..(Len(transcript) + 1) :
         found' = Some([start_line |-> start_line,
                        result |-> parse_transcript(transcript, start_line)])
    /\ UNCHANGED <<transcript, db, pending, done, atStart, base, ev, compactedAt>>

NextParse == ParseFrom

SpecParse == InitParse /\ [][NextParse]_vars

FromLine(items, start_line) ==
    SelectSeq(items, LAMBDA x : x.line_index >= start_line)

\* C37: parse_transcript(path, start) emits no message, raw entry or PR link
\* of a line below start, every emitted item carries the 0-based position of
\* its line in the file, and the result is the full parse restricted to the
\* items whose line index is at least start.
C37_ParseFromOffset ==
    found # None =>
      LET start_line == Unwrap(found).start_line
          r == Unwrap(found).result
          full == parse_transcript(transcript, 0)
      IN /\ \A j \in 1..Len(r.messages) :
              /\ r.messages[j].line_index \in start_line..(Len(transcript) - 1)
              /\ IsMessageKind(transcript[r.messages[j].line_index + 1])
              /\ r.messages[j].kind = transcript[r.messages[j].line_index + 1]
         /\ \A j \in 1..Len(r.pr_links) :
              /\ r.pr_links[j].line_index \in start_line..(Len(transcript) - 1)
              /\ transcript[r.pr_links[j].line_index + 1] = "P"
         /\ \A j \in 1..Len(r.raw_entries) :
              /\ r.raw_entries[j].line_index \in start_line..(Len(transcript) - 1)
              /\ IsRawKind(transcript[r.raw_entries[j].line_index + 1])
         /\ r.messages = FromLine(full.messages, start_line)
         /\ r.pr_links = FromLine(full.pr_links, start_line)
         /\ r.raw_entries = FromLine(full.raw_entries, start_line)

\* Parsing from line 2 of a transcript with a message, a PR link and a
\* raw-only entry on each side of the start line.
C37_Witness ==
    /\ found # None
    /\ Unwrap(found).start_line = 2
    /\ Len(transcript) = 4
    /\ \E i \in 1..2 : IsRawKind(transcript[i])
    /\ \E i \in 1..2 : transcript[i] = "P"
    /\ transcript[3] = "R"
    /\ transcript[4] \in {"U", "Um"}
    /\ Len(Unwrap(found).result.messages) = 1
    /\ Unwrap(found).result.messages[1].line_index = 3
    /\ Len(Unwrap(found).result.raw_entries) = 2
    /\ Unwrap(found).result.raw_entries[1].line_index = 2
    /\ Unwrap(found).result.pr_links = <<>>

====
